---- MODULE Spec2Model ----
(***************************************************************************)
(* Dashboard-recaudo-cartera: the Excel-to-Parquet cache layer, the file   *)
(* catalog and the loaders of src/utils/data_loader.py and of the pages,   *)
(* as a state machine over a small file system; the normalizers, the       *)
(* classification, the aggregations and comparisons of the pages, the      *)
(* clear-cache button of src/app.py and the retry loop of src/utils/llm.py *)
(* as functions applied to small inputs.                                   *)
(***************************************************************************)
EXTENDS Integers, Sequences, FiniteSets, TLC

(***************************************************************************)
(* Bounds of the model.                                                    *)
(***************************************************************************)
\* Largest value of the wall clock and of a file's modification time.
MaxTime == 2
\* Largest number of Excel files the catalog scenarios put on disk.
MaxFiles == 3
\* Largest modification time of a file the catalog scenarios put on disk.
MaxStamp == 1
\* Largest number of rows of a table handed to the normalizers.
MaxRows == 2
\* Largest count or amount handed to the percentage deltas.
MaxAmount == 3
\* Largest max_retries call_gemini is called with.
MaxRetries == 2

(***************************************************************************)
(* Text: a Python str is a sequence of one-character strings.              *)
(***************************************************************************)
Digits == <<"0", "1", "2", "3", "4", "5", "6", "7", "8", "9">>

IsDigit(c) == \E i \in 1..10 : Digits[i] = c

DigitVal(c) == (CHOOSE i \in 1..10 : Digits[i] = c) - 1

\* int("2024"), int("01"): the decimal value of a run of digits.
RECURSIVE IntOf(_)
IntOf(s) ==
    IF s = <<>> THEN 0
    ELSE 10 * IntOf(SubSeq(s, 1, Len(s) - 1)) + DigitVal(s[Len(s)])

\* str.upper() on the letters the model uses.
UpperChar(c) ==
    CASE c = "a" -> "A"
      [] c = "b" -> "B"
      [] c = "p" -> "P"
      [] c = "q" -> "Q"
      [] OTHER -> c

Upper(s) == [i \in 1..Len(s) |-> UpperChar(s[i])]

\* str.strip(): leading and trailing blanks removed.
RECURSIVE LStrip(_)
LStrip(s) == IF s # <<>> /\ s[1] = " " THEN LStrip(Tail(s)) ELSE s

RECURSIVE RStrip(_)
RStrip(s) ==
    IF s # <<>> /\ s[Len(s)] = " " THEN RStrip(SubSeq(s, 1, Len(s) - 1)) ELSE s

Strip(s) == RStrip(LStrip(s))

\* str.replace(ch, ''): every occurrence of one character removed.
RemoveChar(s, ch) == SelectSeq(s, LAMBDA c : c # ch)

(***************************************************************************)
(* Cells.  A cell is a record whose single field names its type, so that   *)
(* cells of different types compare as unequal:                            *)
(*   [num |-> n]  a number        [txt |-> s]  a str (sequence of chars)   *)
(*   [date |-> d] a timestamp     [nan |-> TRUE]  NaN (empty cell)         *)
(*   [nat |-> TRUE] NaT, the invalid-date marker                           *)
(***************************************************************************)
Num(n) == [num |-> n]
Txt(s) == [txt |-> s]
Date(d) == [date |-> d]
NaN == [nan |-> TRUE]
NaT == [nat |-> TRUE]

IsNum(c) == DOMAIN c = {"num"}
IsTxt(c) == DOMAIN c = {"txt"}
IsDate(c) == DOMAIN c = {"date"}
IsNaN(c) == DOMAIN c = {"nan"}
IsNaT(c) == DOMAIN c = {"nat"}

\* The decimal digits of a natural number, as text.
RECURSIVE NatStr(_)
NatStr(n) ==
    IF n < 10 THEN <<Digits[n + 1]>>
    ELSE NatStr(n \div 10) \o <<Digits[(n % 10) + 1]>>

IntStr(n) == IF n < 0 THEN <<"-">> \o NatStr(0 - n) ELSE NatStr(n)

\* str(cell) as pandas' astype(str) renders it.
CellStr(c) ==
    CASE IsTxt(c) -> c.txt
      [] IsNum(c) -> IntStr(c.num)
      [] IsDate(c) -> <<"2", "0", "2", "4", "-", "0", "1", "-">> \o
                      (IF c.date < 10 THEN <<"0">> ELSE <<>>) \o NatStr(c.date)
      [] IsNaT(c) -> <<"N", "a", "T">>
      [] OTHER -> <<"n", "a", "n">>

(***************************************************************************)
(* Tables.  A DataFrame is [cols, rows]: the column names in order and the *)
(* rows in order, each row the sequence of its cells, aligned with cols.   *)
(***************************************************************************)
Table(cols, rows) == [cols |-> cols, rows |-> rows]

HasCol(t, name) == \E i \in 1..Len(t.cols) : t.cols[i] = name

ColIdx(t, name) ==
    CHOOSE i \in 1..Len(t.cols) :
        /\ t.cols[i] = name
        /\ \A j \in 1..(i - 1) : t.cols[j] # name

ColCells(t, name) == {t.rows[r][ColIdx(t, name)] : r \in 1..Len(t.rows)}

\* df[name] = f(df[name]), cell by cell.
MapCol(t, name, f(_)) ==
    LET k == ColIdx(t, name)
    IN  [t EXCEPT !.rows =
            [r \in 1..Len(t.rows) |->
                [i \in 1..Len(t.cols) |->
                    IF i = k THEN f(t.rows[r][i]) ELSE t.rows[r][i]]]]

\* str.strip() on the column names of the model's workbooks.
StripName(name) ==
    CASE name = " Placa" -> "Placa"
      [] name = "Total Cuota " -> "Total Cuota"
      [] OTHER -> name

(***************************************************************************)
(* process_cartera_data (data_loader.py 183-299).                          *)
(***************************************************************************)
NumericColumns ==
    <<"Por Vencer", "Dias30", "Dias60", "Dias90", "Dias Mas90", "Total Cuota",
      "Mora", "Dias Vencidos">>

\* pd.api.types.is_numeric_dtype: every cell a number or NaN.
IsNumericDtype(t, name) == \A c \in ColCells(t, name) : IsNum(c) \/ IsNaN(c)

\* pd.to_numeric(text, errors='coerce'): an optionally signed run of digits
\* parses, anything else is NaN.
ToNumeric(s) ==
    LET neg == s # <<>> /\ s[1] = "-"
        d == IF neg THEN Tail(s) ELSE s
    IN  IF d # <<>> /\ \A i \in 1..Len(d) : IsDigit(d[i])
        THEN Num(IF neg THEN 0 - IntOf(d) ELSE IntOf(d))
        ELSE NaN

\* Lines 199-200: astype(str), ',' '$' ' ' removed, strip, to_numeric,
\* fillna(0).
CleanNumericCell(c) ==
    LET clean == Strip(RemoveChar(RemoveChar(RemoveChar(CellStr(c), ","), "$"), " "))
        n == ToNumeric(clean)
    IN  IF IsNaN(n) THEN Num(0) ELSE n

RECURSIVE CoerceNumeric(_, _)
CoerceNumeric(t, i) ==
    IF i > Len(NumericColumns) THEN t
    ELSE LET col == NumericColumns[i]
             t2 == IF HasCol(t, col) /\ ~IsNumericDtype(t, col)
                   THEN MapCol(t, col, CleanNumericCell)
                   ELSE t
         IN  CoerceNumeric(t2, i + 1)

\* pd.to_datetime(cell, errors='coerce'): a timestamp stays, anything the
\* workbook holds instead (text, an empty cell) becomes NaT.
ToDatetimeCell(c) == IF IsDate(c) THEN c ELSE NaT

PossibleRazonNames ==
    <<"Razon Social", "Razón Social", "RazonSocial", "RazónSocial",
      "Razon_Social", "Razón_Social", "Razon Social", "Razón Social",
      "Nombre", "Nombre Cliente", "Cliente", "Nombre Completo",
      "Razon", "Razón", "Social", "Nombre de Cliente">>

PossiblePlacaNames ==
    <<"Placa", "PLACA", "placa", "Placa Vehiculo", "Placa Vehículo",
      "Placa Vehiculo", "Placa del Vehiculo", "Placa del Vehículo",
      "Numero Placa", "Número Placa", "Numero de Placa", "Número de Placa">>

\* The first name of the list that is a column of t, "" when none is
\* (lines 219-222 and 232-235).
FirstPresent(t, names) ==
    IF \E i \in 1..Len(names) : HasCol(t, names[i])
    THEN names[CHOOSE i \in 1..Len(names) :
                 /\ HasCol(t, names[i])
                 /\ \A j \in 1..(i - 1) : ~HasCol(t, names[j])]
    ELSE ""

\* Line 267: the columns whose lower-cased name contains 'fecha actualiz',
\* 'date actualiz', 'corte', 'fecha corte' or 'fecha modif', among the column
\* names of the model's workbooks.
IsUpdateCol(name) ==
    name \in {"Fecha Corte", "Corte", "Fecha Actualizacion", "Fecha Modificacion"}

\* Lines 255-259: str(Vencimiento) + '_' + RAZON + '_' + PLACA.
UniqueKey(t, row, razonCol, placaCol) ==
    CellStr(row[ColIdx(t, "Vencimiento")]) \o <<"_">> \o
    Upper(Strip(CellStr(row[ColIdx(t, razonCol)]))) \o <<"_">> \o
    Upper(Strip(CellStr(row[ColIdx(t, placaCol)])))

\* df.duplicated(keep=False).sum() > 0 on a sequence of keys.
HasDuplicates(ks) == \E i, j \in 1..Len(ks) : i < j /\ ks[i] = ks[j]

\* drop_duplicates(keep='first') and (keep='last'), ks[i] the key of rows[i].
RECURSIVE KeepFirst(_, _, _)
KeepFirst(rows, ks, i) ==
    IF i > Len(rows) THEN <<>>
    ELSE (IF \E j \in 1..(i - 1) : ks[j] = ks[i] THEN <<>> ELSE <<rows[i]>>)
         \o KeepFirst(rows, ks, i + 1)

RECURSIVE KeepLast(_, _, _)
KeepLast(rows, ks, i) ==
    IF i > Len(rows) THEN <<>>
    ELSE (IF \E j \in (i + 1)..Len(rows) : ks[j] = ks[i] THEN <<>> ELSE <<rows[i]>>)
         \o KeepLast(rows, ks, i + 1)

\* sort_values(by=col, ascending=False, na_position='last'): timestamps
\* descending, missing values after them, ties in their original order.
SortRank(c) == IF IsDate(c) THEN c.date ELSE 0 - 1

InsertDesc(sorted, row, k) ==
    LET before == {i \in 1..Len(sorted) : SortRank(sorted[i][k]) >= SortRank(row[k])}
        n == Cardinality(before)
    IN  SubSeq(sorted, 1, n) \o <<row>> \o SubSeq(sorted, n + 1, Len(sorted))

RECURSIVE SortDesc(_, _, _)
SortDesc(rows, k, i) ==
    IF i = 0 THEN <<>>
    ELSE InsertDesc(SortDesc(rows, k, i - 1), rows[i], k)

\* Lines 246-286: all three key columns present.
DedupFull(t, razonCol, placaCol) ==
    LET ks == [r \in 1..Len(t.rows) |-> UniqueKey(t, t.rows[r], razonCol, placaCol)]
        dateCols == SelectSeq(t.cols, IsUpdateCol)
        sorted == IF dateCols # <<>>
                  THEN SortDesc(t.rows, ColIdx(t, dateCols[1]), Len(t.rows))
                  ELSE t.rows
        sks == [r \in 1..Len(sorted) |-> UniqueKey(t, sorted[r], razonCol, placaCol)]
    IN  IF HasDuplicates(ks)
        THEN [t EXCEPT !.rows = KeepFirst(sorted, sks, 1)]
        ELSE t

\* Mutant of DedupPartial: the degraded deduplication removes nothing.
DedupPartial_skipped(t) == t

\* Lines 292-297: only Vencimiento is there.
DedupPartial(t) ==
    LET k == ColIdx(t, "Vencimiento")
        ks == [r \in 1..Len(t.rows) |-> t.rows[r][k]]
    IN  IF HasDuplicates(ks)
        THEN [t EXCEPT !.rows = KeepLast(t.rows, ks, 1)]
        ELSE t

\* The columns line 238-244 reports as missing.
MissingCols(t) ==
    (IF HasCol(t, "Vencimiento") THEN {} ELSE {"Vencimiento"}) \cup
    (IF FirstPresent(t, PossibleRazonNames) = "" THEN {"Razón Social"} ELSE {}) \cup
    (IF FirstPresent(t, PossiblePlacaNames) = "" THEN {"Placa"} ELSE {})

Deduplicate(t) ==
    IF MissingCols(t) = {}
    THEN DedupFull(t, FirstPresent(t, PossibleRazonNames),
                   FirstPresent(t, PossiblePlacaNames))
    ELSE IF HasCol(t, "Vencimiento") THEN DedupPartial(t) ELSE t

\* Line 192: df.columns = df.columns.str.strip().
StripColumns(df) ==
    [df EXCEPT !.cols = [i \in 1..Len(df.cols) |-> StripName(df.cols[i])]]

\* Lines 203-204.
ConvertVencimiento(t) ==
    IF HasCol(t, "Vencimiento") THEN MapCol(t, "Vencimiento", ToDatetimeCell) ELSE t

\* Line 207.
DeduplicateIf(t, deduplicate) == IF deduplicate THEN Deduplicate(t) ELSE t

process_cartera_data(df, deduplicate) ==
    DeduplicateIf(ConvertVencimiento(CoerceNumeric(StripColumns(df), 1)),
                  deduplicate)

\* The table as lines 192-204 leave it, before the deduplication.
BeforeDedup(df) == ConvertVencimiento(CoerceNumeric(StripColumns(df), 1))

\* Lines 287-290: the st.warning of the degraded deduplication, as the set of
\* the missing columns it names; no warning is the empty set.
DedupWarnings(df, deduplicate) ==
    IF deduplicate THEN MissingCols(BeforeDedup(df)) ELSE {}

(***************************************************************************)
(* process_recaudo_data (data_loader.py 301-317).                          *)
(***************************************************************************)
RecaudoDateColumns == <<"FECHA_VENCIMIENTO", "FECHA_RECAUDO">>

RecaudoNumericColumns ==
    <<"POR_VENCER", "TREINTA_DIAS", "SESENTA_DIAS", "NOVENTA_DIAS", "MAS_NOVENTA",
      "DIAS_VENCIDOS">>

\* Lines 305-307.
RECURSIVE ConvertRecaudoDates(_, _)
ConvertRecaudoDates(t, i) ==
    IF i > Len(RecaudoDateColumns) THEN t
    ELSE ConvertRecaudoDates(IF HasCol(t, RecaudoDateColumns[i])
                             THEN MapCol(t, RecaudoDateColumns[i], ToDatetimeCell)
                             ELSE t,
                             i + 1)

\* Lines 314-315: astype(str), ',' '$' ' ' removed, strip, to_numeric,
\* astype('float64'); a value that does not parse stays NaN.
CleanRecaudoCell(c) ==
    ToNumeric(Strip(RemoveChar(RemoveChar(RemoveChar(CellStr(c), ","), "$"), " ")))

\* Lines 311-315.
RECURSIVE CoerceRecaudo(_, _)
CoerceRecaudo(t, i) ==
    IF i > Len(RecaudoNumericColumns) THEN t
    ELSE CoerceRecaudo(IF /\ HasCol(t, RecaudoNumericColumns[i])
                          /\ ~IsNumericDtype(t, RecaudoNumericColumns[i])
                       THEN MapCol(t, RecaudoNumericColumns[i], CleanRecaudoCell)
                       ELSE t,
                       i + 1)

process_recaudo_data(df) == CoerceRecaudo(ConvertRecaudoDates(df, 1), 1)

\* df[col].isna().sum()
CountNa(t, col) ==
    Cardinality({r \in 1..Len(t.rows) :
                    IsNaN(t.rows[r][ColIdx(t, col)]) \/ IsNaT(t.rows[r][ColIdx(t, col)])})

\* Lines 174-196 of 1_Recaudo.py: the warning of the Recaudo page, one line
\* per date column with its count of invalid or empty dates; nothing is
\* shown for an empty frame.
fechas_invalidas(df) ==
    IF df.rows = <<>> THEN {}
    ELSE {[col |-> RecaudoDateColumns[i], count |-> CountNa(df, RecaudoDateColumns[i])] :
            i \in {j \in 1..Len(RecaudoDateColumns) :
                     /\ HasCol(df, RecaudoDateColumns[j])
                     /\ CountNa(df, RecaudoDateColumns[j]) > 0}}

(***************************************************************************)
(* clasificar_empresa (2_Cartera.py 98-148).  An account code is a cell:   *)
(* NaN for None and float('nan'), [num |-> n] for an int, [flt |-> n] for  *)
(* a finite float whose integer part is n, [inf |-> TRUE] for an infinite  *)
(* float, [txt |-> s] for a str.                                           *)
(***************************************************************************)
Flt(n) == [flt |-> n]
Inf == [inf |-> TRUE]
IsFlt(c) == DOMAIN c = {"flt"}
IsInf(c) == DOMAIN c = {"inf"}

\* Lines 105-111: str(int(cuenta)) for a float, str(cuenta).strip() for
\* anything else, then '.', ' ' and ',' removed.
CuentaStr(cuenta) ==
    RemoveChar(RemoveChar(RemoveChar(
        IF IsFlt(cuenta) THEN IntStr(cuenta.flt) ELSE Strip(CellStr(cuenta)),
        "."), " "), ",")

\* int(text) succeeds: an optional sign and at least one digit.
ParsesInt(s) ==
    LET d == IF s # <<>> /\ s[1] \in {"-", "+"} THEN Tail(s) ELSE s
    IN  d # <<>> /\ \A i \in 1..Len(d) : IsDigit(d[i])

PyInt(s) ==
    IF s[1] = "-" THEN 0 - IntOf(Tail(s))
    ELSE IF s[1] = "+" THEN IntOf(Tail(s))
    ELSE IntOf(s)

SolucionesCodes ==
    {NatStr(c) : c \in (137010001..137010006) \cup {137010999}}

\* Mutant of EsCastigada: the range one code short.
EsCastigada_short(s) ==
    ParsesInt(s) /\ 139905000 <= PyInt(s) /\ PyInt(s) <= 139905004

\* Lines 138-143.
EsCastigada(s) ==
    ParsesInt(s) /\ 139905000 <= PyInt(s) /\ PyInt(s) <= 139905005

\* Lines 114-148 on the cleaned text.
ClasificarStr(s) ==
    CASE s \in SolucionesCodes -> "Soluciones Integrales"
      [] s = NatStr(130505010) -> "Grupo Estrategico"
      [] s = NatStr(130505011) -> "Finaliados"
      [] s = NatStr(130505012) -> "AGM"
      [] s = NatStr(130505013) -> "Motofacil"
      [] s = NatStr(130505014) -> "Motored"
      [] OTHER -> IF EsCastigada(s) THEN "Cartera Castigada" ELSE "Otras"

\* int(float('inf')) raises inside the try of line 103; the except of 145
\* passes and line 148 returns "Otras".
clasificar_empresa(cuenta) ==
    IF IsNaN(cuenta) THEN "Sin Clasificar"
    ELSE IF IsInf(cuenta) THEN "Otras"
    ELSE ClasificarStr(CuentaStr(cuenta))

(***************************************************************************)
(* State: the file system, the wall clock, Streamlit's memo of the page    *)
(* loader, and the record of the last call.                                *)
(***************************************************************************)
VARIABLES
    fs,       \* Excel files on disk: path -> [mtime, table, ok]; ok = it parses
    cdir,     \* cache directories: name -> "ok", "readonly", "missing", "locked"
    cache,    \* Parquet files: [dir, stem] -> [mtime, table, ok]; ok = readable
    clock,    \* the wall clock that stamps every file the program writes
    memo,     \* st.cache_data of load_cartera_data: <<año, mes>> -> result
    last,     \* the last call: its arguments, its result, the messages it showed
    req       \* concurrent load_excel_with_cache calls: request -> where it is

vars == <<fs, cdir, cache, clock, memo, last, req>>

\* What a loader hands back: a table, None, or an exception.
Tbl(t) == [table |-> t]
NoneResult == [none |-> TRUE]
Raised == [raised |-> TRUE]
IsTbl(r) == DOMAIN r = {"table"}

\* The processing_func arguments of the repository's call sites:
\*   "dedup"    lambda df: process_cartera_data(df, deduplicate=True)
\*   "nodedup"  lambda df: process_cartera_data(df, deduplicate=False)
\*   "none"     processing_func=None
\* and of 1_Recaudo.py (111-115):
\*   "recaudo"  processing_func=process_recaudo_data
ProcessingFuncs == {"dedup", "nodedup", "none"}

ApplyFunc(func, df) ==
    CASE func = "dedup" -> process_cartera_data(df, TRUE)
      [] func = "nodedup" -> process_cartera_data(df, FALSE)
      [] func = "recaudo" -> process_recaudo_data(df)
      [] OTHER -> df

\* get_cache_path (35-39): cache_dir / (raw_file.stem + ".parquet").
get_cache_path(raw_file, cache_dir) == [dir |-> cache_dir, stem |-> raw_file.stem]

\* Mutants of is_cache_valid: '>' for '>=', the comparison turned round, and
\* no comparison at all.
is_cache_valid_strict(fsv, cachev, raw_file, cache_file) ==
    IF cache_file \notin DOMAIN cachev THEN FALSE
    ELSE cachev[cache_file].mtime > fsv[raw_file].mtime

is_cache_valid_reversed(fsv, cachev, raw_file, cache_file) ==
    IF cache_file \notin DOMAIN cachev THEN FALSE
    ELSE cachev[cache_file].mtime <= fsv[raw_file].mtime

is_cache_valid_exists(fsv, cachev, raw_file, cache_file) ==
    cache_file \in DOMAIN cachev

\* is_cache_valid (41-45).
is_cache_valid(fsv, cachev, raw_file, cache_file) ==
    IF cache_file \notin DOMAIN cachev THEN FALSE
    ELSE cachev[cache_file].mtime >= fsv[raw_file].mtime

Absent == [absent |-> TRUE]

\* df.to_parquet(cache_path) (82-85): fails unless the directory is writable.
CanWrite(dstate) == dstate = "ok"

\* Lines 60-64 and what the rest of the call will meet: the cache path, the
\* directory after get_cache_path's mkdir (which raises on a directory that
\* cannot be made), the freshness check, and whether the Parquet file
\* reads, the workbook parses and the Parquet file can be written.
LoadPlan(fsv, cachev, cdirv, excel_path, cache_dir, func) ==
    LET cp == get_cache_path(excel_path, cache_dir)
        cdir2 == IF cdirv[cache_dir] = "missing"
                 THEN [cdirv EXCEPT ![cache_dir] = "ok"] ELSE cdirv
        valid == is_cache_valid(fsv, cachev, excel_path, cp)
    IN  [file |-> excel_path, cache_dir |-> cache_dir, func |-> func, cp |-> cp,
         pre |-> IF cp \in DOMAIN cachev THEN cachev[cp] ELSE Absent,
         mkdirFails |-> cdirv[cache_dir] = "locked",
         cdir |-> cdir2,
         valid |-> valid,
         readOk |-> valid /\ cachev[cp].ok,
         parseOk |-> fsv[excel_path].ok,
         writeOk |-> CanWrite(cdir2[cache_dir])]

\* Mutant of LoadedTable: a Parquet file that passed the freshness check is
\* used even when reading it failed.
LoadedTable_unreadable(fsv, cachev, pl) ==
    ApplyFunc(pl.func, IF pl.valid THEN cachev[pl.cp].table
                       ELSE fsv[pl.file].table)

\* Lines 66-68 and 75-79: the table the call reads and processes, from the
\* Parquet file when that is valid and reads, else from the workbook.
LoadedTable(fsv, cachev, pl) ==
    ApplyFunc(pl.func, IF pl.readOk THEN cachev[pl.cp].table
                       ELSE fsv[pl.file].table)

\* Lines 81-85: df.to_parquet(cache_path) stamps the file with the clock.
WriteCache(cachev, cp, df, clk) ==
    [c \in DOMAIN cachev \cup {cp} |->
        IF c = cp THEN [mtime |-> clk, table |-> df, ok |-> TRUE] ELSE cachev[c]]

\* Mutant of ParseFailure: the failed load is cached as an empty table.
ParseFailure_cached(cachev, pl) ==
    [res |-> NoneResult, errored |-> TRUE,
     cache |-> [c \in DOMAIN cachev \cup {pl.cp} |->
                  IF c = pl.cp
                  THEN [mtime |-> 0, table |-> Table(<<>>, <<>>), ok |-> TRUE]
                  ELSE cachev[c]]]

\* Lines 88-90: st.error and None; nothing is written.
ParseFailure(cachev, pl) ==
    [res |-> NoneResult, errored |-> TRUE, cache |-> cachev]

\* Lines 64-90, given the plan pl and the processed table df.
LoadOutcome(cachev, cdirv, clk, pl, df) ==
    LET hit == ~pl.mkdirFails /\ pl.readOk
        parsed == ~pl.mkdirFails /\ ~pl.readOk
        wrote == parsed /\ pl.parseOk /\ pl.writeOk
        failure == ParseFailure(cachev, pl)
    IN  [file |-> pl.file, cache_dir |-> pl.cache_dir, func |-> pl.func,
         pre |-> pl.pre,
         valid |-> ~pl.mkdirFails /\ pl.valid,
         hit |-> hit,
         parsed |-> parsed,
         wrote |-> wrote,
         warnings |-> (IF parsed /\ pl.valid THEN {"cache_read"} ELSE {}) \cup
                      (IF parsed /\ pl.parseOk /\ ~pl.writeOk
                       THEN {"cache_write"} ELSE {}),
         errored |-> parsed /\ ~pl.parseOk /\ failure.errored,
         res |-> IF pl.mkdirFails THEN Raised
                 ELSE IF hit \/ pl.parseOk THEN Tbl(df)
                 ELSE failure.res,
         cache |-> IF wrote THEN WriteCache(cachev, pl.cp, df, clk)
                   ELSE IF parsed /\ ~pl.parseOk THEN failure.cache
                   ELSE cachev,
         cdir |-> IF pl.mkdirFails THEN cdirv ELSE pl.cdir]

\* load_excel_with_cache (47-90) on the file system (fsv, cachev, cdirv) at
\* time clk: the result, what the call did, and the cache and directory it
\* leaves.
LoadWithPlan(fsv, cachev, cdirv, clk, pl) ==
    LoadOutcome(cachev, cdirv, clk, pl, LoadedTable(fsv, cachev, pl))

load_excel_with_cache(fsv, cachev, cdirv, clk, excel_path, cache_dir, func) ==
    LoadWithPlan(fsv, cachev, cdirv, clk,
                 LoadPlan(fsv, cachev, cdirv, excel_path, cache_dir, func))

(***************************************************************************)
(* The aggregations: obtener_metricas (2_Cartera.py 396-427), the aging    *)
(* indices of 5_Informe_Cartera_Fiable.py (114-178) and                    *)
(* compare_cartera_periods (data_loader.py 363-448).  A percentage is the  *)
(* exact fraction [num, den]; a label cell is Txt(<<label>>).              *)
(***************************************************************************)
\* Series.sum(): the numbers of the column added up, missing values skipped;
\* 0 for a column that is absent (the callers' `if col in df.columns`).
RECURSIVE SumCells(_, _, _)
SumCells(rows, k, i) ==
    IF i > Len(rows) THEN 0
    ELSE (IF IsNum(rows[i][k]) THEN rows[i][k].num ELSE 0) + SumCells(rows, k, i + 1)

ColSum(t, name) == IF HasCol(t, name) THEN SumCells(t.rows, ColIdx(t, name), 1) ELSE 0

Zero == [num |-> 0, den |-> 1]

\* Mutant of Pct: the division without its guard.
Pct_unguarded(x, total) == [num |-> x * 100, den |-> total]

\* (x / total * 100) if total > 0 else 0.
Pct(x, total) == IF total > 0 THEN [num |-> x * 100, den |-> total] ELSE Zero

\* obtener_metricas(df_empresa): the denominator is the 'Total Cuota' sum.
obtener_metricas(df_empresa) ==
    [total |-> ColSum(df_empresa, "Total Cuota"),
     por_vencer |-> ColSum(df_empresa, "Por Vencer"),
     dias30 |-> ColSum(df_empresa, "Dias30"),
     dias60 |-> ColSum(df_empresa, "Dias60"),
     dias90 |-> ColSum(df_empresa, "Dias90"),
     dias_mas90 |-> ColSum(df_empresa, "Dias Mas90"),
     indices |-> <<Pct(ColSum(df_empresa, "Por Vencer"), ColSum(df_empresa, "Total Cuota")),
                   Pct(ColSum(df_empresa, "Dias30"), ColSum(df_empresa, "Total Cuota")),
                   Pct(ColSum(df_empresa, "Dias60"), ColSum(df_empresa, "Total Cuota")),
                   Pct(ColSum(df_empresa, "Dias90"), ColSum(df_empresa, "Total Cuota")),
                   Pct(ColSum(df_empresa, "Dias Mas90"), ColSum(df_empresa, "Total Cuota"))>>]

\* normalize_edad (5_Informe_Cartera_Fiable.py 131-145) on the age labels of
\* the model's workbooks.
normalize_edad(edad) ==
    CASE edad \in {"PorVencer", "Por Vencer"} -> "PorVencer"
      [] edad \in {"+90", "Mas de 90"} -> "Mas90"
      [] edad \in {"30", "1-30"} -> "30"
      [] edad \in {"60", "31-60"} -> "60"
      [] edad \in {"90", "61-90"} -> "90"
      [] OTHER -> edad

\* Lines 124-162: the Capital of the rows whose normalized age is bucket;
\* groupby leaves out the rows without an age.
RECURSIVE BucketCapital(_, _, _)
BucketCapital(t, bucket, i) ==
    IF ~HasCol(t, "EDADES") \/ i > Len(t.rows) THEN 0
    ELSE (IF /\ IsTxt(t.rows[i][ColIdx(t, "EDADES")])
             /\ normalize_edad(t.rows[i][ColIdx(t, "EDADES")].txt[1]) = bucket
             /\ IsNum(t.rows[i][ColIdx(t, "Capital")])
          THEN t.rows[i][ColIdx(t, "Capital")].num ELSE 0)
         + BucketCapital(t, bucket, i + 1)

\* Lines 114-173 of the Fiable report: the denominator is the Capital of all
\* rows.
indices_fiable(df_financiero) ==
    [total_capital |-> ColSum(df_financiero, "Capital"),
     indices |-> <<Pct(BucketCapital(df_financiero, "PorVencer", 1), ColSum(df_financiero, "Capital")),
                   Pct(BucketCapital(df_financiero, "30", 1), ColSum(df_financiero, "Capital")),
                   Pct(BucketCapital(df_financiero, "60", 1), ColSum(df_financiero, "Capital")),
                   Pct(BucketCapital(df_financiero, "90", 1), ColSum(df_financiero, "Capital")),
                   Pct(BucketCapital(df_financiero, "Mas90", 1), ColSum(df_financiero, "Capital"))>>,
     indice_mora |-> Pct(BucketCapital(df_financiero, "30", 1)
                         + BucketCapital(df_financiero, "60", 1)
                         + BucketCapital(df_financiero, "90", 1)
                         + BucketCapital(df_financiero, "Mas90", 1),
                         ColSum(df_financiero, "Capital"))]

\* Lines 381-385: df['Empresa'] = df['Cuenta'].apply(clasificar_empresa).
AddEmpresa(t) ==
    IF HasCol(t, "Cuenta") /\ ~HasCol(t, "Empresa")
    THEN Table(t.cols \o <<"Empresa">>,
               [r \in 1..Len(t.rows) |->
                   t.rows[r] \o <<Txt(<<clasificar_empresa(t.rows[r][ColIdx(t, "Cuenta")])>>)>>])
    ELSE t

EmpresasOf(t) ==
    IF HasCol(t, "Empresa") THEN {c.txt[1] : c \in ColCells(t, "Empresa")} ELSE {}

\* Lines 388-392.
Empresas(df1, df2) == EmpresasOf(df1) \cup EmpresasOf(df2)

\* sorted() on the labels clasificar_empresa gives.
SortedLabels ==
    <<"AGM", "Cartera Castigada", "Finaliados", "Grupo Estrategico", "Motofacil",
      "Motored", "Otras", "Sin Clasificar", "Soluciones Integrales">>

\* df[df['Empresa'] == empresa], the empty frame without the column (397-398).
FilterEmpresa(t, empresa) ==
    IF HasCol(t, "Empresa")
    THEN [t EXCEPT !.rows = SelectSeq(t.rows,
                LAMBDA row : row[ColIdx(t, "Empresa")] = Txt(<<empresa>>))]
    ELSE Table(<<>>, <<>>)

\* Mutant of VarPorcentaje: every group without a positive base is new.
VarPorcentaje_allnew(total1, total2) ==
    IF total1 > 0 THEN [num |-> (total2 - total1) * 100, den |-> total1]
    ELSE [num |-> 100, den |-> 1]

\* Line 418: (var_total / total1 * 100) if total1 > 0 else
\* (100 if total2 > 0 else 0).
VarPorcentaje(total1, total2) ==
    IF total1 > 0 THEN [num |-> (total2 - total1) * 100, den |-> total1]
    ELSE IF total2 > 0 THEN [num |-> 100, den |-> 1] ELSE Zero

\* Lines 400-446 for one group, e1 and e2 its rows in the two periods.
CompareRow(empresa, e1, e2) ==
    [Empresa |-> empresa,
     total1 |-> ColSum(e1, "Total Cuota"), total2 |-> ColSum(e2, "Total Cuota"),
     var_total |-> ColSum(e2, "Total Cuota") - ColSum(e1, "Total Cuota"),
     var_porcentaje |-> VarPorcentaje(ColSum(e1, "Total Cuota"), ColSum(e2, "Total Cuota")),
     indice_corriente1 |-> Pct(ColSum(e1, "Por Vencer"), ColSum(e1, "Total Cuota")),
     indice_corriente2 |-> Pct(ColSum(e2, "Por Vencer"), ColSum(e2, "Total Cuota")),
     indice_mora1 |-> Pct(ColSum(e1, "Dias30") + ColSum(e1, "Dias60") + ColSum(e1, "Dias90")
                          + ColSum(e1, "Dias Mas90"), ColSum(e1, "Total Cuota")),
     indice_mora2 |-> Pct(ColSum(e2, "Dias30") + ColSum(e2, "Dias60") + ColSum(e2, "Dias90")
                          + ColSum(e2, "Dias Mas90"), ColSum(e2, "Total Cuota")),
     por_vencer1 |-> ColSum(e1, "Por Vencer"), por_vencer2 |-> ColSum(e2, "Por Vencer"),
     dias30_1 |-> ColSum(e1, "Dias30"), dias30_2 |-> ColSum(e2, "Dias30"),
     dias60_1 |-> ColSum(e1, "Dias60"), dias60_2 |-> ColSum(e2, "Dias60"),
     dias90_1 |-> ColSum(e1, "Dias90"), dias90_2 |-> ColSum(e2, "Dias90"),
     dias_mas90_1 |-> ColSum(e1, "Dias Mas90"), dias_mas90_2 |-> ColSum(e2, "Dias Mas90")]

\* 4_Colocacion_Fiable.py 225-227 (and 296-298, 481-482): the delta against
\* the previous month or year, (delta / base * 100) if base > 0 else 0.
pct_prev_units(month_prev_units, month_units) ==
    IF month_prev_units > 0
    THEN [num |-> (month_units - month_prev_units) * 100, den |-> month_prev_units]
    ELSE Zero

\* 3_Pipeline.py 260-261: (delta_ytd / ytd_prev * 100) if ytd_prev else 0.
delta_pct_total(ytd_prev, ytd_actual) ==
    IF ytd_prev # 0
    THEN [num |-> (ytd_actual - ytd_prev) * 100, den |-> ytd_prev]
    ELSE Zero

\* Lines 426-446: what each column of a comparison row holds, as
\* <<metric, kind>>; kind is the value of period 1 or 2, the absolute or the
\* percentage delta.
ColumnRole ==
    [Empresa |-> <<"group", "key">>,
     total1 |-> <<"total", "value1">>, total2 |-> <<"total", "value2">>,
     var_total |-> <<"total", "delta">>, var_porcentaje |-> <<"total", "pct">>,
     indice_corriente1 |-> <<"indice_corriente", "value1">>,
     indice_corriente2 |-> <<"indice_corriente", "value2">>,
     indice_mora1 |-> <<"indice_mora", "value1">>,
     indice_mora2 |-> <<"indice_mora", "value2">>,
     por_vencer1 |-> <<"por_vencer", "value1">>, por_vencer2 |-> <<"por_vencer", "value2">>,
     dias30_1 |-> <<"dias30", "value1">>, dias30_2 |-> <<"dias30", "value2">>,
     dias60_1 |-> <<"dias60", "value1">>, dias60_2 |-> <<"dias60", "value2">>,
     dias90_1 |-> <<"dias90", "value1">>, dias90_2 |-> <<"dias90", "value2">>,
     dias_mas90_1 |-> <<"dias_mas90", "value1">>, dias_mas90_2 |-> <<"dias_mas90", "value2">>]

\* Lines 387-448 on the two frames with their Empresa columns.
CompareRows(df1, df2) ==
    LET labels == SelectSeq(SortedLabels, LAMBDA e : e \in Empresas(df1, df2))
    IN  [i \in 1..Len(labels) |->
            CompareRow(labels[i], FilterEmpresa(df1, labels[i]),
                       FilterEmpresa(df2, labels[i]))]

\* compare_cartera_periods(df1, df2, ..., clasificar_empresa_func=
\* clasificar_empresa): None for an empty frame, else the rows of the
\* comparison frame.
compare_cartera_periods(df1, df2) ==
    IF df1.rows = <<>> \/ df2.rows = <<>> THEN NoneResult
    ELSE [rows |-> CompareRows(AddEmpresa(df1), AddEmpresa(df2))]

(***************************************************************************)
(* The catalog (data_loader.py 29-33 and 92-180).  A path is [dir, stem];  *)
(* every file is an .xlsx.  A stem is text whose first element stands for  *)
(* the leading word of the name ("cartera", "recaudo").                    *)
(***************************************************************************)
Path(dir, stem) == [dir |-> dir, stem |-> stem]

RawDirOf(dataset) == IF dataset = "cartera" THEN "cartera_raw" ELSE "recaudo_raw"

\* directory.glob("<dataset>-*.xlsx")
GlobMatch(fsv, dir, dataset) ==
    {f \in DOMAIN fsv :
        /\ f.dir = dir
        /\ Len(f.stem) >= 2
        /\ f.stem[1] = dataset
        /\ f.stem[2] = "-"}

\* get_excel_files (29-33): the files of the glob, newest first.  glob yields
\* the files in the directory's own order and sorted() is stable, so files
\* of equal mtime can come in either order: every listing it can return.
get_excel_files(fsv, dir, dataset) ==
    LET S == GlobMatch(fsv, dir, dataset)
        n == Cardinality(S)
    IN  {l \in [1..n -> S] :
            /\ \A i, j \in 1..n : i # j => l[i] # l[j]
            /\ \A i \in 1..(n - 1) : fsv[l[i]].mtime >= fsv[l[i + 1]].mtime}

\* re.search(r'(\d{4})-(\d{1,2})', stem) matches at position i.
MatchesAt(stem, i) ==
    /\ i + 5 <= Len(stem)
    /\ \A k \in 0..3 : IsDigit(stem[i + k])
    /\ stem[i + 4] = "-"
    /\ IsDigit(stem[i + 5])

NoDate == <<0, 0>>

\* parse_filename_date (92-106): <<año, mes>> of the leftmost match, the
\* month taking two digits when it can; NoDate for None.
parse_filename_date(stem) ==
    IF \E i \in 1..Len(stem) : MatchesAt(stem, i)
    THEN LET i == CHOOSE p \in 1..Len(stem) :
                    /\ MatchesAt(stem, p)
                    /\ \A q \in 1..(p - 1) : ~MatchesAt(stem, q)
             two == i + 6 <= Len(stem) /\ IsDigit(stem[i + 6])
             anio == IntOf(SubSeq(stem, i, i + 3))
             mes == IntOf(SubSeq(stem, i + 5, IF two THEN i + 6 ELSE i + 5))
         IN  IF 1 <= mes /\ mes <= 12 THEN <<anio, mes>> ELSE NoDate
    ELSE NoDate

\* One catalog tuple (mes_str, año, mes_num, archivo_path); the label is
\* kept as its format ("es": meses_es, "strftime": '%B %Y' of the locale)
\* and the month and year it is formatted from.
Entry(f, fmt) ==
    LET d == parse_filename_date(f.stem)
    IN  [mes_str |-> <<fmt, d[2], d[1]>>, anio |-> d[1], mes |-> d[2], path |-> f]

\* Lines 121-127: the dated files of a listing, in its order.
DatedEntries(listing, fmt) ==
    LET dated == SelectSeq(listing, LAMBDA f : parse_filename_date(f.stem) # NoDate)
    IN  [i \in 1..Len(dated) |-> Entry(dated[i], fmt)]

\* Lines 137-145: a root file is appended unless its path is already listed.
RECURSIVE AppendRoot(_, _, _)
AppendRoot(files, rootEntries, i) ==
    IF i > Len(rootEntries) THEN files
    ELSE LET e == rootEntries[i]
             dup == \E k \in 1..Len(files) : files[k].path = e.path
         IN  AppendRoot(IF dup THEN files ELSE Append(files, e), rootEntries, i + 1)

\* Mutant of Newer: the sort ascending (reverse=True dropped).
Newer_ascending(a, b) == a.anio < b.anio \/ (a.anio = b.anio /\ a.mes < b.mes)

\* sorted(files, key=lambda x: (x[1], x[2]), reverse=True): stable, so
\* entries of the same period keep their order.
Newer(a, b) == a.anio > b.anio \/ (a.anio = b.anio /\ a.mes > b.mes)

InsertByPeriod(sorted, e) ==
    LET n == Cardinality({i \in 1..Len(sorted) : ~Newer(e, sorted[i])})
    IN  SubSeq(sorted, 1, n) \o <<e>> \o SubSeq(sorted, n + 1, Len(sorted))

RECURSIVE SortByPeriod(_, _)
SortByPeriod(files, i) ==
    IF i = 0 THEN <<>>
    ELSE InsertByPeriod(SortByPeriod(files, i - 1), files[i])

\* detect_cartera_files (108-147) and detect_recaudo_files (149-180): every
\* catalog the call can return on the file system fsv.
MergedFiles(rawList, rootList, rootFmt) ==
    AppendRoot(DatedEntries(rawList, "es"), DatedEntries(rootList, rootFmt), 1)

detect_files(fsv, dataset, rootFmt) ==
    {SortByPeriod(MergedFiles(rawList, rootList, rootFmt),
                  Len(MergedFiles(rawList, rootList, rootFmt)))
        : rawList \in get_excel_files(fsv, RawDirOf(dataset), dataset),
          rootList \in get_excel_files(fsv, "root", dataset)}

detect_cartera_files(fsv) == detect_files(fsv, "cartera", "es")

detect_recaudo_files(fsv) == detect_files(fsv, "recaudo", "strftime")

(***************************************************************************)
(* The loaders of the cartera page and of the comparison.                  *)
(***************************************************************************)
NoArgs == <<0, 0>>

\* load_data() without arguments.
NoRecaudoArgs == <<"", 0, 0>>

NoFile == Path("", <<>>)

\* Lines 287-290 of 2_Cartera.py: the first catalog entry of the period.
FirstMatch(available, anio, mes) ==
    IF \E i \in 1..Len(available) : available[i].anio = anio /\ available[i].mes = mes
    THEN available[CHOOSE i \in 1..Len(available) :
            /\ available[i].anio = anio /\ available[i].mes = mes
            /\ \A j \in 1..(i - 1) :
                 ~(available[j].anio = anio /\ available[j].mes = mes)].path
    ELSE NoFile

\* Lines 331-335 of data_loader.py: the loop has no break, so the last
\* catalog entry of the period is the one kept.
LastMatch(available, anio, mes) ==
    IF \E i \in 1..Len(available) : available[i].anio = anio /\ available[i].mes = mes
    THEN available[CHOOSE i \in 1..Len(available) :
            /\ available[i].anio = anio /\ available[i].mes = mes
            /\ \A j \in (i + 1)..Len(available) :
                 ~(available[j].anio = anio /\ available[j].mes = mes)].path
    ELSE NoFile

\* Lines 284-297 of 2_Cartera.py: the file load_cartera_data loads.
SelectedFile(available, args) ==
    IF args # NoArgs /\ FirstMatch(available, args[1], args[2]) # NoFile
    THEN FirstMatch(available, args[1], args[2])
    ELSE available[1].path

\* What a call of load_excel_with_cache did, without the state it leaves.
CallRecord(o) ==
    [file |-> o.file, cache_dir |-> o.cache_dir, func |-> o.func, pre |-> o.pre,
     valid |-> o.valid, hit |-> o.hit, parsed |-> o.parsed, wrote |-> o.wrote,
     warnings |-> o.warnings, errored |-> o.errored, res |-> o.res]

Idle == [op |-> "env"]

(***************************************************************************)
(* The environment: time passes, files are exported again, touched,        *)
(* damaged, and the cache directory changes its permissions.               *)
(***************************************************************************)
Tick ==
    /\ clock < MaxTime
    /\ clock' = clock + 1
    /\ last' = Idle
    /\ UNCHANGED <<req, fs, cdir, cache, memo>>

\* The workbook is exported again: new content, stamped with the clock.
ModifySource(f, t, ok) ==
    /\ f \in DOMAIN fs
    /\ [mtime |-> clock, table |-> t, ok |-> ok] # fs[f]
    /\ fs' = [fs EXCEPT ![f] = [mtime |-> clock, table |-> t, ok |-> ok]]
    /\ last' = Idle
    /\ UNCHANGED <<req, cdir, cache, clock, memo>>

\* os.utime on the workbook: the modification time alone moves forward.
TouchSource(f, m) ==
    /\ f \in DOMAIN fs
    /\ m > fs[f].mtime
    /\ fs' = [fs EXCEPT ![f].mtime = m]
    /\ last' = Idle
    /\ UNCHANGED <<req, cdir, cache, clock, memo>>

\* os.utime on the Parquet file.
TouchCache(c, m) ==
    /\ c \in DOMAIN cache
    /\ m > cache[c].mtime
    /\ cache' = [cache EXCEPT ![c].mtime = m]
    /\ last' = Idle
    /\ UNCHANGED <<req, fs, cdir, clock, memo>>

\* The Parquet file is damaged (truncated, overwritten): it no longer reads.
CorruptCache(c) ==
    /\ c \in DOMAIN cache
    /\ cache[c].ok
    /\ cache' = [cache EXCEPT ![c].ok = FALSE]
    /\ last' = Idle
    /\ UNCHANGED <<req, fs, cdir, clock, memo>>

\* The cache directory is made read-only or writable again, or is removed
\* (with its files) where it can ("missing") or cannot ("locked") be made
\* again.
ChangeCacheDir(d, st) ==
    /\ st # cdir[d]
    /\ cdir' = [cdir EXCEPT ![d] = st]
    /\ cache' = IF st \in {"missing", "locked"}
                THEN [c \in {x \in DOMAIN cache : x.dir # d} |-> cache[c]]
                ELSE cache
    /\ last' = Idle
    /\ UNCHANGED <<req, fs, clock, memo>>

(***************************************************************************)
(* The program's operations.                                               *)
(***************************************************************************)
\* A direct call load_excel_with_cache(f, CARTERA_CACHE_DIR, func).
\* The Parquet files the clear-cache button removed, when the call is the
\* first one after a click.
JustCleared == IF last.op = "clear" THEN last.removed ELSE {}

CommitLoad(o) ==
    /\ cache' = o.cache
    /\ cdir' = o.cdir
    /\ last' = [op |-> "load", call |-> CallRecord(o),
                before |-> IF last.op = "load" THEN last.call ELSE Absent,
                cleared |-> JustCleared]
    /\ UNCHANGED <<req, fs, clock, memo>>

LoadExcel(f, func) ==
    /\ f \in DOMAIN fs
    /\ CommitLoad(load_excel_with_cache(fs, cache, cdir, clock, f, "cartera", func))

\* detect_cartera_files() and detect_recaudo_files().
Detect(dataset) ==
    /\ \E available \in (IF dataset = "cartera" THEN detect_cartera_files(fs)
                          ELSE detect_recaudo_files(fs)) :
         last' = [op |-> "detect", dataset |-> dataset, catalog |-> available]
    /\ UNCHANGED <<req, fs, cdir, cache, clock, memo>>

\* st.cache_data stores the value a call returned under its arguments.
Memoize(memov, args, res) ==
    [a \in DOMAIN memov \cup {args} |-> IF a = args THEN res ELSE memov[a]]

\* Lines 299-311 of 2_Cartera.py, o the load of the selected file: the
\* value is memoized unless the load raised.
PageLoaded(memov, args, o) ==
    [cache |-> o.cache, cdir |-> o.cdir,
     memo |-> IF o.res = Raised THEN memov ELSE Memoize(memov, args, o.res),
     last |-> [op |-> "page", args |-> args, memoHit |-> FALSE,
               found |-> TRUE, res |-> o.res, call |-> CallRecord(o)]]

\* load_cartera_data(año, mes_num) of 2_Cartera.py (270-311), under
\* @st.cache_data, with the catalog its detect_cartera_files() call returned:
\* a memoized call returns the stored value and runs nothing.
load_cartera_data(fsv, cachev, cdirv, memov, clk, args, available) ==
    IF args \in DOMAIN memov
    THEN [cache |-> cachev, cdir |-> cdirv, memo |-> memov,
          last |-> [op |-> "page", args |-> args, memoHit |-> TRUE,
                    found |-> FALSE, res |-> memov[args]]]
    ELSE IF available = <<>>
    THEN [cache |-> cachev, cdir |-> cdirv,
          memo |-> Memoize(memov, args, NoneResult),
          last |-> [op |-> "page", args |-> args, memoHit |-> FALSE,
                    found |-> FALSE, res |-> NoneResult]]
    ELSE PageLoaded(memov, args,
                    load_excel_with_cache(fsv, cachev, cdirv, clk,
                                          SelectedFile(available, args),
                                          "cartera", "dedup"))

CommitPage(o) ==
    /\ cache' = o.cache
    /\ cdir' = o.cdir
    /\ memo' = o.memo
    /\ last' = o.last @@ [cleared |-> JustCleared]
    /\ UNCHANGED <<req, fs, clock>>

LoadCarteraData(args) ==
    \E available \in detect_cartera_files(fs) :
        CommitPage(load_cartera_data(fs, cache, cdir, memo, clock, args, available))

\* Lines 111-117 of 1_Recaudo.py, o the load of the selected file.
RecaudoLoaded(memov, args, o) ==
    [cache |-> o.cache, cdir |-> o.cdir,
     memo |-> IF o.res = Raised THEN memov ELSE Memoize(memov, args, o.res),
     last |-> [op |-> "recaudo_page", args |-> args, memoHit |-> FALSE,
               found |-> TRUE, res |-> o.res, call |-> CallRecord(o)]]

\* Lines 93-108 of 1_Recaudo.py: the first catalog entry of the period,
\* else the most recent file.
RecaudoSelectedFile(available, args) ==
    IF args # NoRecaudoArgs /\ FirstMatch(available, args[2], args[3]) # NoFile
    THEN FirstMatch(available, args[2], args[3])
    ELSE available[1].path

\* load_data(mes_selected, año, mes_num) of 1_Recaudo.py (82-117), under
\* @st.cache_data, with the catalog its detect_recaudo_files() call returned.
load_data(fsv, cachev, cdirv, memov, clk, args, available) ==
    IF args \in DOMAIN memov
    THEN [cache |-> cachev, cdir |-> cdirv, memo |-> memov,
          last |-> [op |-> "recaudo_page", args |-> args, memoHit |-> TRUE,
                    found |-> FALSE, res |-> memov[args]]]
    ELSE IF available = <<>>
    THEN [cache |-> cachev, cdir |-> cdirv,
          memo |-> Memoize(memov, args, NoneResult),
          last |-> [op |-> "recaudo_page", args |-> args, memoHit |-> FALSE,
                    found |-> FALSE, res |-> NoneResult]]
    ELSE RecaudoLoaded(memov, args,
                       load_excel_with_cache(fsv, cachev, cdirv, clk,
                                             RecaudoSelectedFile(available, args),
                                             "recaudo", "recaudo"))

LoadData(args) ==
    \E available \in detect_recaudo_files(fs) :
        CommitPage(load_data(fs, cache, cdir, memo, clock, args, available))

\* Mutant of PAGE_CACHE_MAPPING: the Cartera page is mapped to both caches.
PAGE_CACHE_MAPPING_both ==
    [p \in {"1_Recaudo", "2_Cartera", "3_Pipeline"} |->
        CASE p = "1_Recaudo" -> {"recaudo"}
          [] p = "2_Cartera" -> {"cartera", "recaudo"}
          [] OTHER -> {"pipeline"}]

\* PAGE_CACHE_MAPPING (app.py 30-36): the cache directories of each page.
PAGE_CACHE_MAPPING ==
    [p \in {"1_Recaudo", "2_Cartera", "3_Pipeline"} |->
        CASE p = "1_Recaudo" -> {"recaudo"}
          [] p = "2_Cartera" -> {"cartera"}
          [] OTHER -> {"pipeline"}]

\* A page object without a usable _page attribute.
NoPage == "?"

\* _get_current_page_cache_dirs (app.py 39-48): (None, None) without a page
\* path, else the path and PAGE_CACHE_MAPPING.get(path).
get_current_page_cache_dirs(page_obj) ==
    IF page_obj = NoPage THEN [page_path |-> NoPage, cache_dirs |-> {}]
    ELSE [page_path |-> page_obj,
          cache_dirs |-> IF page_obj \in DOMAIN PAGE_CACHE_MAPPING
                         THEN PAGE_CACHE_MAPPING[page_obj] ELSE {}]

\* clear_cache_dirs(cache_dirs): every file under the named directories is
\* deleted; what was removed and what could not be (a file of a directory
\* that is not writable) is reported.
clear_cache_dirs(cachev, cdirv, cache_dirs) ==
    [removed |-> {c \in DOMAIN cachev : c.dir \in cache_dirs /\ CanWrite(cdirv[c.dir])},
     errors |-> {c \in DOMAIN cachev : c.dir \in cache_dirs /\ ~CanWrite(cdirv[c.dir])},
     cache |-> [c \in {x \in DOMAIN cachev :
                          ~(x.dir \in cache_dirs /\ CanWrite(cdirv[x.dir]))} |-> cachev[c]]]

\* Lines 66-81 of app.py: what the sidebar shows.
ClearMessages(found, cleared) ==
    IF found.cache_dirs # {}
    THEN (IF cleared.removed # {}
          THEN {[kind |-> "success", count |-> Cardinality(cleared.removed)]}
          ELSE {[kind |-> "info", count |-> 0]})
         \cup (IF cleared.errors # {}
               THEN {[kind |-> "warning", count |-> Cardinality(cleared.errors)]}
               ELSE {})
    ELSE IF found.page_path = NoPage THEN {[kind |-> "warning", count |-> 0]}
    ELSE {[kind |-> "info", count |-> 0]}

\* The button "Limpiar caché de esta página" (app.py 64-81) on page_obj.
ClearCacheButton(page_obj) ==
    LET found == get_current_page_cache_dirs(page_obj)
        cleared == clear_cache_dirs(cache, cdir, found.cache_dirs)
    IN  /\ cache' = cleared.cache
        /\ last' = [op |-> "clear", page |-> page_obj, cache_dirs |-> found.cache_dirs,
                    removed |-> cleared.removed, errors |-> cleared.errors,
                    messages |-> ClearMessages(found, cleared),
                    fsBefore |-> fs, cacheBefore |-> cache]
        /\ UNCHANGED <<req, fs, cdir, clock, memo>>

\* Lines 351-360 of data_loader.py, o1 and o2 the two loads.
Compared(p1, p2, o1, o2) ==
    [cache |-> o2.cache, cdir |-> o2.cdir,
     last |-> [op |-> "compare", p1 |-> p1, p2 |-> p2, found |-> TRUE,
               res1 |-> o1.res, res2 |-> o2.res,
               call1 |-> CallRecord(o1), call2 |-> CallRecord(o2)]]

\* Lines 345-355: the second load runs on the cache the first one left; an
\* exception of the first load ends the call.
CompareSecond(fsv, cachev, cdirv, clk, p1, p2, file2, o1) ==
    IF o1.res = Raised
    THEN [cache |-> cachev, cdir |-> cdirv,
          last |-> [op |-> "compare", p1 |-> p1, p2 |-> p2, found |-> TRUE,
                    res1 |-> Raised, res2 |-> Raised]]
    ELSE Compared(p1, p2, o1,
                  load_excel_with_cache(fsv, o1.cache, o1.cdir, clk, file2,
                                        "cartera", "nodedup"))

\* Lines 337-349.
CompareFiles(fsv, cachev, cdirv, clk, p1, p2, file1, file2) ==
    IF file1 = NoFile \/ file2 = NoFile
    THEN [cache |-> cachev, cdir |-> cdirv,
          last |-> [op |-> "compare", p1 |-> p1, p2 |-> p2, found |-> FALSE,
                    res1 |-> NoneResult, res2 |-> NoneResult]]
    ELSE CompareSecond(fsv, cachev, cdirv, clk, p1, p2, file2,
                       load_excel_with_cache(fsv, cachev, cdirv, clk, file1,
                                             "cartera", "nodedup"))

\* load_cartera_for_comparison(año1, mes1, año2, mes2) (320-360) with the
\* catalog its detect_cartera_files() call returned.
load_cartera_for_comparison(fsv, cachev, cdirv, clk, p1, p2, available) ==
    CompareFiles(fsv, cachev, cdirv, clk, p1, p2,
                 LastMatch(available, p1[1], p1[2]),
                 LastMatch(available, p2[1], p2[2]))

CommitCompare(o) ==
    /\ cache' = o.cache
    /\ cdir' = o.cdir
    /\ last' = o.last
    /\ UNCHANGED <<req, fs, clock, memo>>

LoadCarteraForComparison(p1, p2) ==
    \E available \in detect_cartera_files(fs) :
        CommitCompare(load_cartera_for_comparison(fs, cache, cdir, clock, p1, p2,
                                                  available))

(***************************************************************************)
(* The workbooks and files of the scenarios.                               *)
(***************************************************************************)
CarteraCols == <<"Vencimiento", "Razon Social", " Placa", "Total Cuota">>

\* Two rows of one composite key (the names differ in case and blanks only)
\* and a third of another due date.
TableDup ==
    Table(CarteraCols,
          << <<Date(5), Txt(<<"a", "b">>), Txt(<<"p", "1">>), Num(10)>>,
             <<Date(5), Txt(<<" ", "A", "B">>), Txt(<<"P", "1">>), Num(20)>>,
             <<Date(6), Txt(<<"a", "b">>), Txt(<<"p", "1">>), Num(5)>> >>)

\* No two rows of one key; the amounts are text as a spreadsheet formats it.
TableTxt ==
    Table(CarteraCols,
          << <<Date(5), Txt(<<"a", "b">>), Txt(<<"p", "1">>), Txt(<<"1", ",", "0">>)>>,
             <<Txt(<<"q">>), Txt(<<"b">>), Txt(<<"q">>), Txt(<<"$", " ", "5">>)>> >>)

SrcTables == {TableDup, TableTxt}

Stem2024_1 == <<"cartera", "-", "2", "0", "2", "4", "-", "1">>
Stem2024_01 == <<"cartera", "-", "2", "0", "2", "4", "-", "0", "1">>
Stem2023_12 == <<"cartera", "-", "2", "0", "2", "3", "-", "1", "2">>
Stem2024_13 == <<"cartera", "-", "2", "0", "2", "4", "-", "1", "3">>
StemFinal == <<"cartera", "-", "f", "i", "n", "a", "l">>
StemRec2024_1 == <<"recaudo", "-", "2", "0", "2", "4", "-", "1">>
StemRec2023_12 == <<"recaudo", "-", "2", "0", "2", "3", "-", "1", "2">>

F1 == Path("cartera_raw", Stem2024_1)

\* The paths the catalog scenarios choose their files from.
CandidatePaths ==
    {Path("cartera_raw", Stem2024_1), Path("root", Stem2024_1),
     Path("cartera_raw", Stem2024_01), Path("cartera_raw", Stem2023_12),
     Path("cartera_raw", Stem2024_13), Path("root", StemFinal),
     Path("recaudo_raw", StemRec2024_1), Path("root", StemRec2023_12)}

\* In the catalog scenarios a file of raw/ and a file of the root directory
\* hold different workbooks.
ContentOf(f) == IF f.dir = "root" THEN TableTxt ELSE TableDup

Periods == {<<2024, 1>>, <<2023, 12>>}

EmptyFn == [x \in {} |-> 0]

CacheDirStates == {"ok", "readonly", "missing", "locked"}

InitCommon ==
    /\ cdir = [d \in {"cartera", "recaudo"} |-> "ok"]
    /\ cache = EmptyFn
    /\ clock = 0
    /\ memo = EmptyFn
    /\ last = Idle
    /\ req = EmptyFn

\* One cartera workbook in raw/, just exported.
InitOneFile ==
    /\ \E t \in SrcTables : fs = [f \in {F1} |-> [mtime |-> 0, table |-> t, ok |-> TRUE]]
    /\ InitCommon

\* Any disk of at most MaxFiles files.
InitDisk ==
    /\ \E S \in SUBSET CandidatePaths :
         /\ Cardinality(S) <= MaxFiles
         /\ \E m \in [S -> 0..MaxStamp] :
              fs = [f \in S |-> [mtime |-> m[f], table |-> ContentOf(f), ok |-> TRUE]]
    /\ InitCommon

Init == InitOneFile

Environment ==
    \/ Tick
    \/ \E t \in SrcTables, ok \in BOOLEAN : ModifySource(F1, t, ok)
    \/ \E m \in 0..MaxTime : TouchSource(F1, m)
    \/ \E c \in DOMAIN cache, m \in 0..MaxTime : TouchCache(c, m)
    \/ \E c \in DOMAIN cache : CorruptCache(c)
    \/ \E st \in CacheDirStates : ChangeCacheDir("cartera", st)

\* The cache layer under every fault of its environment.
Next ==
    \/ Environment
    \/ \E func \in ProcessingFuncs : LoadExcel(F1, func)

Spec == Init /\ [][Next]_vars

\* The two cartera loaders over one workbook that is exported again from
\* time to time; no input or output fails.
NextPolicy ==
    \/ Tick
    \/ \E t \in SrcTables : ModifySource(F1, t, TRUE)
    \/ \E args \in {<<2024, 1>>, NoArgs} : LoadCarteraData(args)
    \/ LoadCarteraForComparison(<<2024, 1>>, <<2024, 1>>)

SpecPolicy == InitOneFile /\ [][NextPolicy]_vars

\* The catalog and the loaders over any disk.
NextCatalog ==
    \/ \E dataset \in {"cartera", "recaudo"} : Detect(dataset)
    \/ \E args \in Periods : LoadCarteraData(args)
    \/ LoadCarteraForComparison(<<2024, 1>>, <<2023, 12>>)

SpecCatalog == InitDisk /\ [][NextCatalog]_vars

\* The catalog alone over any disk.
NextDetect == \E dataset \in {"cartera", "recaudo"} : Detect(dataset)

SpecDetect == InitDisk /\ [][NextDetect]_vars

\* The pages over one cartera and one recaudo workbook.
FR == Path("recaudo_raw", StemRec2024_1)

RecaudoTables ==
    {Table(<<"POR_VENCER", "FECHA_RECAUDO">>, <<<<Num(10), Date(1)>>>>),
     Table(<<"POR_VENCER", "FECHA_RECAUDO">>, <<<<Txt(<<"x">>), Txt(<<"q">>)>>>>)}

TablesFor(f) == IF f = FR THEN RecaudoTables ELSE SrcTables

InitPages ==
    /\ fs = [f \in {F1, FR} |->
               [mtime |-> 0,
                table |-> IF f = FR THEN CHOOSE r \in RecaudoTables : IsNum(r.rows[1][1])
                          ELSE TableDup,
                ok |-> TRUE]]
    /\ InitCommon

\* The clear-cache button between loads of the two pages; the cartera cache
\* directory is at times read-only.
NextClear ==
    \/ \E args \in {<<2024, 1>>, NoArgs} : LoadCarteraData(args)
    \/ \E args \in {<<"Enero 2024", 2024, 1>>, NoRecaudoArgs} : LoadData(args)
    \/ LoadExcel(F1, "dedup")
    \/ \E page_obj \in DOMAIN PAGE_CACHE_MAPPING \cup {NoPage} : ClearCacheButton(page_obj)
    \/ \E st \in {"ok", "readonly"} : ChangeCacheDir("cartera", st)

SpecClear == InitPages /\ [][NextClear]_vars

\* The two page loaders while the workbooks are exported again.
NextPages ==
    \/ Tick
    \/ \E f \in {F1, FR} : \E t \in TablesFor(f) : ModifySource(f, t, TRUE)
    \/ LoadCarteraData(<<2024, 1>>)
    \/ LoadData(<<"Enero 2024", 2024, 1>>)

SpecPages == InitPages /\ [][NextPages]_vars

(***************************************************************************)
(* Two requests (Streamlit sessions, one thread each) run                  *)
(* load_excel_with_cache(F1, CARTERA_CACHE_DIR, dedup) at the same time.   *)
(* A request is [pc, df, racy]: pc its position in lines 60-90, df the     *)
(* frame it holds, racy whether it read the Parquet file while the other   *)
(* request was writing it.                                                 *)
(***************************************************************************)
Requests == {1, 2}

NoFrame == Table(<<>>, <<>>)

AtRest == [pc |-> "idle", df |-> NoFrame, racy |-> FALSE]

\* Mutant of OpenForWrite: the frame goes to a temporary file that is renamed
\* when complete; the Parquet file itself is untouched until then.
OpenForWrite_temporary(cachev, cp, clk) == cachev

\* df.to_parquet(cache_path) (line 83) from the moment it opens the file:
\* the file exists, stamped with the clock, and does not read until the
\* write is finished.
OpenForWrite(cachev, cp, clk) ==
    [c \in DOMAIN cachev \cup {cp} |->
        IF c = cp THEN [mtime |-> clk, table |-> NoFrame, ok |-> FALSE] ELSE cachev[c]]

\* Lines 60-61: the call begins.
Begin(r) ==
    /\ req[r].pc \in {"idle", "done"}
    /\ req' = [req EXCEPT ![r] = [pc |-> "check", df |-> NoFrame, racy |-> FALSE]]
    /\ UNCHANGED <<fs, cdir, cache, clock, memo, last>>

\* Line 64: is_cache_valid.
CheckCache(r) ==
    /\ req[r].pc = "check"
    /\ req' = [req EXCEPT ![r].pc =
                 IF is_cache_valid(fs, cache, F1, get_cache_path(F1, "cartera"))
                 THEN "read" ELSE "parse"]
    /\ UNCHANGED <<fs, cdir, cache, clock, memo, last>>

\* Lines 65-71: read_parquet; a file that does not read sends the call to
\* the workbook.
ReadParquet(r) ==
    LET cp == get_cache_path(F1, "cartera")
        reads == cp \in DOMAIN cache /\ cache[cp].ok
    IN  /\ req[r].pc = "read"
        /\ req' = [req EXCEPT ![r] =
                     [pc |-> IF reads THEN "done" ELSE "parse",
                      df |-> IF reads THEN ApplyFunc("dedup", cache[cp].table) ELSE NoFrame,
                      racy |-> \E o \in Requests \ {r} : req[o].pc = "writing"]]
        /\ UNCHANGED <<fs, cdir, cache, clock, memo, last>>

\* Lines 74-79: read_excel and the processing function.
ReadExcel(r) ==
    /\ req[r].pc = "parse"
    /\ req' = [req EXCEPT ![r].pc = IF fs[F1].ok THEN "write" ELSE "done",
                          ![r].df = IF fs[F1].ok THEN ApplyFunc("dedup", fs[F1].table)
                                    ELSE NoFrame]
    /\ UNCHANGED <<fs, cdir, cache, clock, memo, last>>

\* Line 83, first half: to_parquet opens the file.
BeginWrite(r) ==
    /\ req[r].pc = "write"
    /\ cache' = OpenForWrite(cache, get_cache_path(F1, "cartera"), clock)
    /\ req' = [req EXCEPT ![r].pc = "writing"]
    /\ UNCHANGED <<fs, cdir, clock, memo, last>>

\* Line 83, second half: the file is complete.
EndWrite(r) ==
    /\ req[r].pc = "writing"
    /\ cache' = WriteCache(cache, get_cache_path(F1, "cartera"), req[r].df, clock)
    /\ req' = [req EXCEPT ![r].pc = "done"]
    /\ UNCHANGED <<fs, cdir, clock, memo, last>>

InitRace ==
    /\ fs = [f \in {F1} |-> [mtime |-> 0, table |-> TableDup, ok |-> TRUE]]
    /\ cdir = [d \in {"cartera", "recaudo"} |-> "ok"]
    /\ cache = EmptyFn
    /\ clock = 0
    /\ memo = EmptyFn
    /\ last = Idle
    /\ req = [r \in Requests |-> AtRest]

NextRace ==
    \/ Tick
    \/ \E t \in SrcTables : ModifySource(F1, t, TRUE)
    \/ \E r \in Requests :
         \/ Begin(r)
         \/ CheckCache(r)
         \/ ReadParquet(r)
         \/ ReadExcel(r)
         \/ BeginWrite(r)
         \/ EndWrite(r)

SpecRace == InitRace /\ [][NextRace]_vars

(***************************************************************************)
(* The normalizers as pure functions: every table of at most MaxRows rows  *)
(* of a few layouts, handed to process_cartera_data and                    *)
(* process_recaudo_data.                                                   *)
(***************************************************************************)
RowsUpTo(S, n) == UNION {[1..k -> S] : k \in 0..n}

\* All three key columns; the names differ in case, blanks and in where an
\* underscore falls between company and plate.
KeyRows ==
    {<<v, Txt(r), Txt(p)>> :
        v \in {Date(5), Date(6)},
        r \in {<<"a", "b">>, <<" ", "A", "B">>, <<"a", "_", "b">>, <<"a">>},
        p \in {<<"p">>, <<"b", "_", "p">>}}

KeyTables ==
    {Table(<<"Vencimiento", "Razon Social", " Placa">>, rows) :
        rows \in RowsUpTo(KeyRows, MaxRows)}

\* One key, spelled two ways, with an updated-at column.
UpdRows ==
    {<<Date(5), Txt(r), Txt(<<"p">>), u>> :
        r \in {<<"a", "b">>, <<" ", "A", "B">>},
        u \in {Date(1), Date(2), NaT}}

UpdTables ==
    {Table(<<"Vencimiento", "Razon Social", "Placa", "Fecha Corte">>, rows) :
        rows \in RowsUpTo(UpdRows, MaxRows)}

\* No plate column.
PartialRows ==
    {<<v, Txt(r)>> :
        v \in {Date(5), Date(6), Txt(<<"q">>)},
        r \in {<<"a", "b">>, <<"b">>}}

PartialTables ==
    {Table(<<"Vencimiento", "Razon Social">>, rows) :
        rows \in RowsUpTo(PartialRows, MaxRows)}

\* No due-date column.
NoDateTables ==
    {Table(<<"Razon Social", " Placa">>, rows) :
        rows \in RowsUpTo({<<Txt(r), Txt(<<"p">>)>> : r \in {<<"a", "b">>, <<"b">>}},
                          MaxRows)}

\* What a monetary cell of a workbook can hold: a number, formatted text,
\* text that is no number, nothing.
MoneyCells == {Num(10), Txt(<<"$", " ", "5">>), Txt(<<"x">>), NaN}

MoneyTables ==
    {Table(<<"Total Cuota ">>, rows) :
        rows \in RowsUpTo({<<m>> : m \in MoneyCells}, MaxRows)}

CarteraInputs ==
    KeyTables \cup UpdTables \cup PartialTables \cup NoDateTables \cup MoneyTables

RecaudoInputs ==
    {Table(<<"POR_VENCER", "FECHA_RECAUDO">>, rows) :
        rows \in RowsUpTo({<<m, d>> : m \in MoneyCells, d \in {Date(1), Txt(<<"q">>)}},
                          MaxRows)}

\* No file on disk: the functions are called on tables directly.
InitPure ==
    /\ fs = EmptyFn
    /\ InitCommon

\* The calls are independent of one another: each is taken from the initial
\* state.  quality is the data-quality warning the page shows for the frame:
\* the Recaudo page counts its invalid dates (1_Recaudo.py 180-196), the
\* Cartera page and process_cartera_data count nothing.
ProcessCartera(df, deduplicate) ==
    /\ last = Idle
    /\ last' = [op |-> "process_cartera", df |-> df, deduplicate |-> deduplicate,
                res |-> process_cartera_data(df, deduplicate),
                warnings |-> DedupWarnings(df, deduplicate),
                quality |-> {}]
    /\ UNCHANGED <<req, fs, cdir, cache, clock, memo>>

ProcessRecaudo(df) ==
    /\ last = Idle
    /\ last' = [op |-> "process_recaudo", df |-> df, res |-> process_recaudo_data(df),
                quality |-> fechas_invalidas(process_recaudo_data(df))]
    /\ UNCHANGED <<req, fs, cdir, cache, clock, memo>>

NextProcess ==
    \/ \E df \in CarteraInputs, deduplicate \in BOOLEAN : ProcessCartera(df, deduplicate)
    \/ \E df \in RecaudoInputs : ProcessRecaudo(df)

SpecProcess == InitPure /\ [][NextProcess]_vars

(***************************************************************************)
(* clasificar_empresa on account codes in every spelling a workbook gives  *)
(* them.                                                                   *)
(***************************************************************************)
\* Every listed code, the neighbours of each range, and codes of no unit.
SampleCodes ==
    (137010001..137010007) \cup {137010999, 137011000} \cup (130505009..130505015)
    \cup (139904999..139905006) \cup {999999999, 0, 5}

\* "137.010.001": the digits with a dot before every group of three.
RECURSIVE Dotted(_)
Dotted(s) ==
    IF Len(s) <= 3 THEN s
    ELSE Dotted(SubSeq(s, 1, Len(s) - 3)) \o <<".">> \o SubSeq(s, Len(s) - 2, Len(s))

SpellingsOf(n) ==
    {Num(n), Flt(n), Txt(NatStr(n)), Txt(Dotted(NatStr(n))),
     Txt(<<" ">> \o NatStr(n) \o <<" ">>), Txt(NatStr(n) \o <<",">>),
     Txt(<<"0">> \o NatStr(n))}

CuentaInputs ==
    UNION {SpellingsOf(n) : n \in SampleCodes}
    \cup {NaN, Inf, Num(0 - 5), Flt(0 - 5), Txt(<<>>), Txt(<<" ">>), Txt(<<"x">>),
          Txt(<<"a", "b">>), Txt(<<"-", "5">>), Txt(<<"1", "x">>), Txt(<<"n", "a", "n">>)}

Clasificar(cuenta) ==
    /\ last = Idle
    /\ last' = [op |-> "classify", cuenta |-> cuenta,
                label |-> clasificar_empresa(cuenta)]
    /\ UNCHANGED <<req, fs, cdir, cache, clock, memo>>

NextClassify == \E cuenta \in CuentaInputs : Clasificar(cuenta)

SpecClassify == InitPure /\ [][NextClassify]_vars

(***************************************************************************)
(* The aggregations on small frames.                                       *)
(***************************************************************************)
NumRow(amounts) == [i \in 1..Len(amounts) |-> Num(amounts[i])]

\* Groups whose buckets add up to the reported total, fall short of it, or
\* come with a zero or negative total.
MetricTables ==
    {Table(<<"Total Cuota", "Por Vencer", "Dias30", "Dias60", "Dias90", "Dias Mas90">>, rows) :
        rows \in RowsUpTo({NumRow(<<5, 1, 1, 1, 1, 1>>), NumRow(<<5, 1, 0, 0, 0, 0>>),
                           NumRow(<<0, 1, 0, 0, 0, 0>>), NumRow(<<0, 0, 0, 0, 0, 0>>),
                           NumRow(<<0 - 5, 1, 0, 0, 0, 0>>)}, MaxRows)}
    \cup {Table(<<"Por Vencer">>, rows) : rows \in RowsUpTo({NumRow(<<1>>)}, MaxRows)}

FiableTables ==
    {Table(<<"Capital", "EDADES">>, rows) :
        rows \in RowsUpTo({<<Num(c), e>> :
                             c \in {0, 3},
                             e \in {Txt(<<"Por Vencer">>), Txt(<<"1-30">>), Txt(<<"+90">>),
                                    Txt(<<"Otro">>), NaN}}, MaxRows)}
    \cup {Table(<<"Capital">>, rows) : rows \in RowsUpTo({NumRow(<<3>>)}, MaxRows)}

\* A period frame: with its Empresa column, or with the account codes it is
\* derived from; a group's total may be negative (credit balances).
PeriodAmounts == {<<2, 1, 1>>, <<0, 1, 0>>}

PeriodTables ==
    {Table(<<"Empresa", "Total Cuota", "Por Vencer", "Dias30">>, rows) :
        rows \in RowsUpTo({<<Txt(<<e>>)>> \o NumRow(a) :
                             e \in {"AGM", "Otras"}, a \in PeriodAmounts}, MaxRows)}
    \cup {Table(<<"Cuenta", "Total Cuota", "Por Vencer", "Dias30">>, rows) :
            rows \in RowsUpTo({<<Num(c)>> \o NumRow(a) :
                                 c \in {130505012, 5}, a \in PeriodAmounts}, MaxRows)}
    \cup {Table(<<"Empresa", "Total Cuota", "Por Vencer", "Dias30">>,
                 <<<<Txt(<<e>>)>> \o NumRow(<<0 - 2, 1, 0>>)>>) : e \in {"AGM", "Otras"}}

ObtenerMetricas(df) ==
    /\ last = Idle
    /\ last' = [op |-> "metricas", df |-> df, res |-> obtener_metricas(df)]
    /\ UNCHANGED <<req, fs, cdir, cache, clock, memo>>

IndicesFiable(df) ==
    /\ last = Idle
    /\ last' = [op |-> "fiable", df |-> df, res |-> indices_fiable(df)]
    /\ UNCHANGED <<req, fs, cdir, cache, clock, memo>>

ComparePeriods(df1, df2) ==
    /\ last = Idle
    /\ last' = [op |-> "compare_periods", df1 |-> df1, df2 |-> df2,
                res |-> compare_cartera_periods(df1, df2)]
    /\ UNCHANGED <<req, fs, cdir, cache, clock, memo>>

\* The percentage delta of one (base, comparison) pair as each page computes
\* it: the cartera comparison, the colocación report, the pipeline report.
PercentageDeltas(base, comparison) ==
    /\ last = Idle
    /\ last' = [op |-> "deltas", base |-> base, comparison |-> comparison,
                cartera |-> VarPorcentaje(base, comparison),
                colocacion |-> pct_prev_units(base, comparison),
                pipeline |-> delta_pct_total(base, comparison)]
    /\ UNCHANGED <<req, fs, cdir, cache, clock, memo>>

NextMetrics ==
    \/ \E df \in MetricTables : ObtenerMetricas(df)
    \/ \E df \in FiableTables : IndicesFiable(df)
    \/ \E df1, df2 \in PeriodTables : ComparePeriods(df1, df2)
    \/ \E base, comparison \in 0..MaxAmount : PercentageDeltas(base, comparison)

SpecMetrics == InitPure /\ [][NextMetrics]_vars

(***************************************************************************)
(* call_gemini (llm.py 87-181).  What one generate_content call gives:    *)
(*   "text"        a response with text (line 127)                         *)
(*   "parts"       text found in the candidates' parts (130-143)           *)
(*   "blank"       no usable text: the RuntimeError of line 142            *)
(*   "rate_limit"  an exception naming 429, quota or rate limit (150-155)  *)
(*   "error"       any other exception                                     *)
(***************************************************************************)
Outcomes == {"text", "parts", "blank", "rate_limit", "error"}

\* Lines 150-155.
is_rate_limit(outcome) == outcome = "rate_limit"

\* Mutant of ShouldRetry: any failure is tried again.
ShouldRetry_any(outcome, attempt, max_retries) == attempt < max_retries

\* Line 157: if is_rate_limit and attempt < max_retries.
ShouldRetry(outcome, attempt, max_retries) ==
    is_rate_limit(outcome) /\ attempt < max_retries

\* wait_time = 2 ** attempt (line 159).
RECURSIVE Pow2(_)
Pow2(n) == IF n = 0 THEN 1 ELSE 2 * Pow2(n - 1)

\* The loop of lines 115-176 from attempt on, and the raise of 179-181 when
\* range(max_retries + 1) is used up; slept are the waits so far.
RECURSIVE Attempts(_, _, _, _)
Attempts(outcomes, max_retries, attempt, slept) ==
    IF attempt > max_retries
    THEN [calls |-> attempt, result |-> "RuntimeError", slept |-> slept]
    ELSE IF outcomes[attempt + 1] \in {"text", "parts"}
    THEN [calls |-> attempt + 1, result |-> "text", slept |-> slept]
    ELSE IF ShouldRetry(outcomes[attempt + 1], attempt, max_retries)
    THEN Attempts(outcomes, max_retries, attempt + 1, Append(slept, Pow2(attempt)))
    ELSE [calls |-> attempt + 1, result |-> "RuntimeError", slept |-> slept]

\* call_gemini(context, question, max_retries=max_retries) when the model
\* answers its calls with outcomes[1], outcomes[2], ...
call_gemini(outcomes, max_retries) == Attempts(outcomes, max_retries, 0, <<>>)

(***************************************************************************)
(* call_gemini against every sequence of answers of the model, for         *)
(* max_retries from -1 (no attempt at all) to MaxRetries.                  *)
(***************************************************************************)
CallGemini(outcomes, max_retries) ==
    /\ last = Idle
    /\ last' = [op |-> "call_gemini", outcomes |-> outcomes, max_retries |-> max_retries,
                res |-> call_gemini(outcomes, max_retries)]
    /\ UNCHANGED <<req, fs, cdir, cache, clock, memo>>

NextGemini ==
    \E outcomes \in [1..(MaxRetries + 1) -> Outcomes], max_retries \in (0 - 1)..MaxRetries :
        CallGemini(outcomes, max_retries)

SpecGemini == InitPure /\ [][NextGemini]_vars

(***************************************************************************)
(* The cache layer: claims C1-C3 and C5-C7, on the state a direct call of  *)
(* load_excel_with_cache leaves.  last.call.pre is the Parquet file the    *)
(* call found; the workbook is as the call found it.                       *)
(***************************************************************************)
LastCachePath == get_cache_path(last.call.file, last.call.cache_dir)

\* What an uncached parse of the workbook followed by the call's
\* processing function gives.
FreshTable == Tbl(ApplyFunc(last.call.func, fs[last.call.file].table))

TwoCalls ==
    /\ last.op = "load"
    /\ last.before # Absent
    /\ last.before.file = last.call.file
    /\ last.before.func = last.call.func

\* C2 as claimed: two consecutive loads of an unmodified source with the
\* same processing function return equal tables, and the second is a cache
\* hit that does not parse the source.
C2_Claim ==
    TwoCalls => /\ last.call.res = last.before.res
                /\ last.call.hit
                /\ ~last.call.parsed

\* C2 as amended: the two loads return equal results; the second is a cache
\* hit that does not parse the source whenever the first was a cache hit or
\* wrote the cache with a modification time not earlier than the source's.
C2_Idempotent ==
    TwoCalls =>
        /\ last.call.res = last.before.res
        /\ ( \/ last.before.hit
             \/ /\ last.before.wrote
                /\ last.call.pre.mtime >= fs[last.call.file].mtime )
           => (last.call.hit /\ ~last.call.parsed)

\* The first load parsed a workbook with duplicate rows and wrote the cache,
\* the second is a hit: deduplication ran again on the deduplicated table.
C2_Witness ==
    /\ TwoCalls
    /\ last.before.wrote
    /\ last.call.hit
    /\ last.call.func = "dedup"
    /\ last.call.res # Tbl(StripColumns(fs[last.call.file].table))
    /\ Len(last.call.res.table.rows) < Len(fs[last.call.file].table.rows)

SourceNewer ==
    /\ last.op = "load"
    /\ last.call.pre # Absent
    /\ fs[last.call.file].mtime > last.call.pre.mtime

\* C3 as claimed: once the source is newer than the cache file, the next
\* load parses the source and, when the parse succeeds, overwrites the cache
\* file so that the cache is valid again.
C3_Claim ==
    SourceNewer =>
        /\ last.call.parsed
        /\ fs[last.call.file].ok
           => /\ last.call.wrote
              /\ is_cache_valid(fs, cache, last.call.file, LastCachePath)

\* C3 as amended: the load parses the source; when the parse succeeds and
\* the cache directory is writable it overwrites the cache file with the
\* fresh table, stamped with the time of the write; the cache is then valid
\* for the following load if the source's modification time is not later
\* than that.
C3_Freshness ==
    SourceNewer =>
        /\ last.call.parsed
        /\ (fs[last.call.file].ok /\ cdir[last.call.cache_dir] = "ok")
           => /\ last.call.wrote
              /\ cache[LastCachePath] =
                    [mtime |-> clock, table |-> FreshTable.table, ok |-> TRUE]
              /\ fs[last.call.file].mtime <= clock
                 => is_cache_valid(fs, cache, last.call.file, LastCachePath)

\* A stale cache of other content was overwritten and is valid again.
C3_Witness ==
    /\ SourceNewer
    /\ last.call.wrote
    /\ last.call.pre.ok
    /\ last.call.pre.table # FreshTable.table
    /\ cache[LastCachePath].table = FreshTable.table
    /\ is_cache_valid(fs, cache, last.call.file, LastCachePath)

CorruptButFresh ==
    /\ last.op = "load"
    /\ last.call.pre # Absent
    /\ ~last.call.pre.ok
    /\ last.call.pre.mtime >= fs[last.call.file].mtime

\* C5 as claimed: a cache file that passes the freshness check and does not
\* read gives a warning, a parse of the source, the parsed and transformed
\* table as the result, and a rewritten cache.
C5_Claim ==
    CorruptButFresh =>
        /\ "cache_read" \in last.call.warnings
        /\ last.call.parsed
        /\ last.call.res = FreshTable
        /\ last.call.wrote

\* C5 as amended: warning and parse always; the parsed and transformed
\* table is the result when the source parses, and the cache is rewritten
\* from it when moreover the cache directory is writable.
C5_Recovery ==
    CorruptButFresh =>
        /\ "cache_read" \in last.call.warnings
        /\ last.call.parsed
        /\ fs[last.call.file].ok
           => /\ last.call.res = FreshTable
              /\ cdir[last.call.cache_dir] = "ok"
                 => /\ last.call.wrote
                    /\ cache[LastCachePath].ok
                    /\ cache[LastCachePath].table = FreshTable.table

\* The damaged file held another table than the source gives; the load
\* returned the source's and replaced the file.
C5_Witness ==
    /\ CorruptButFresh
    /\ last.call.pre.table # FreshTable.table
    /\ last.call.res = FreshTable
    /\ last.call.wrote
    /\ cache[LastCachePath].ok

\* C6: when parsing the source fails, the load shows an error, returns None
\* without raising, and leaves the cache file as it found it.
C6_ParseFailure ==
    ( /\ last.op = "load"
      /\ last.call.parsed
      /\ ~fs[last.call.file].ok )
    => /\ last.call.errored
       /\ last.call.res = NoneResult
       /\ IF last.call.pre = Absent
          THEN LastCachePath \notin DOMAIN cache
          ELSE /\ LastCachePath \in DOMAIN cache
               /\ cache[LastCachePath] = last.call.pre

\* A failed parse beside a stale, readable cache file, which is still there.
C6_Witness ==
    /\ last.op = "load"
    /\ last.call.parsed
    /\ ~fs[last.call.file].ok
    /\ last.call.pre # Absent
    /\ last.call.pre.ok
    /\ last.call.pre.mtime < fs[last.call.file].mtime
    /\ last.call.res = NoneResult

\* C7 as claimed: whenever the source parses and the cache cannot be
\* written (the directory is read-only, or is missing and cannot be made),
\* the load returns the freshly parsed and transformed table and does not
\* raise.
C7_Claim ==
    ( /\ last.op = "load"
      /\ fs[last.call.file].ok
      /\ cdir[last.call.cache_dir] \in {"readonly", "locked"}
      /\ ~last.call.hit )
    => last.call.res = FreshTable

(***************************************************************************)
(* The two cartera loaders on one cache directory: claim C4.               *)
(***************************************************************************)
\* C4 as claimed: every load that runs through the cartera cache returns
\* what an uncached parse of its source followed by the call's own policy
\* gives: load_cartera_data the deduplicated table, each period of
\* load_cartera_for_comparison the table with every source record kept.
C4_Claim ==
    /\ (last.op = "page" /\ ~last.memoHit /\ last.found)
       => last.res = Tbl(process_cartera_data(fs[last.call.file].table, TRUE))
    /\ (last.op = "compare" /\ last.found)
       => /\ last.res1 = Tbl(process_cartera_data(fs[last.call1.file].table, FALSE))
          /\ last.res2 = Tbl(process_cartera_data(fs[last.call2.file].table, FALSE))

(***************************************************************************)
(* The catalog: claims C8-C10.                                             *)
(***************************************************************************)
PeriodKey(e) == e.anio * 12 + e.mes

\* The stem holds, somewhere, four digits, a hyphen and the digits of mes,
\* with no further digit after them when mes is written with one, and they
\* read as anio and mes.
NamesPeriod(stem, anio, mes) ==
    \E i \in 1..Len(stem), n \in 1..2 :
        /\ i + 4 + n <= Len(stem)
        /\ \A k \in 0..3 : IsDigit(stem[i + k])
        /\ stem[i + 4] = "-"
        /\ \A k \in 1..n : IsDigit(stem[i + 4 + k])
        /\ n = 1 => ~(i + 6 <= Len(stem) /\ IsDigit(stem[i + 6]))
        /\ IntOf(SubSeq(stem, i, i + 3)) = anio
        /\ IntOf(SubSeq(stem, i + 5, i + 4 + n)) = mes

DatasetFiles(dataset) ==
    GlobMatch(fs, RawDirOf(dataset), dataset) \cup GlobMatch(fs, "root", dataset)

\* C8: a catalog is sorted by (year, month) descending, its first entry is
\* the most recent period of the dataset's dated files, and every entry's
\* file name holds a YYYY-M token with the entry's year and a month in 1..12.
C8_CatalogOrder ==
    last.op = "detect" =>
        /\ \A i \in 1..(Len(last.catalog) - 1) :
             PeriodKey(last.catalog[i]) >= PeriodKey(last.catalog[i + 1])
        /\ \A f \in DatasetFiles(last.dataset) :
             parse_filename_date(f.stem) # NoDate
             => /\ last.catalog # <<>>
                /\ PeriodKey(last.catalog[1]) >=
                      parse_filename_date(f.stem)[1] * 12 + parse_filename_date(f.stem)[2]
        /\ \A i \in 1..Len(last.catalog) :
             /\ last.catalog[i].path \in DatasetFiles(last.dataset)
             /\ last.catalog[i].mes \in 1..12
             /\ NamesPeriod(last.catalog[i].path.stem,
                            last.catalog[i].anio, last.catalog[i].mes)

\* A catalog of two periods whose newer period is the older file of the
\* listing, beside a file of the dataset that is not listed.
C8_Witness ==
    /\ last.op = "detect"
    /\ Len(last.catalog) >= 2
    /\ PeriodKey(last.catalog[1]) > PeriodKey(last.catalog[2])
    /\ last.catalog[1].path.dir = last.catalog[2].path.dir
    /\ fs[last.catalog[1].path].mtime < fs[last.catalog[2].path].mtime
    /\ \E f \in DatasetFiles(last.dataset) :
         \A i \in 1..Len(last.catalog) : last.catalog[i].path # f

\* C9 as claimed: no two entries of a catalog have the same (year, month).
C9_Claim ==
    last.op = "detect" =>
        \A i, j \in 1..Len(last.catalog) :
            (last.catalog[i].anio = last.catalog[j].anio
             /\ last.catalog[i].mes = last.catalog[j].mes) => i = j

\* A file of raw/ and a file of the root directory both name period p.
InBothLocations(p) ==
    /\ \E f \in GlobMatch(fs, "cartera_raw", "cartera") : parse_filename_date(f.stem) = p
    /\ \E f \in GlobMatch(fs, "root", "cartera") : parse_filename_date(f.stem) = p

\* C10 as claimed: when a period has a file in raw/ and a file in the root
\* directory, load_cartera_data and both periods of
\* load_cartera_for_comparison load the file of raw/.
C10_Claim ==
    /\ (last.op = "page" /\ last.found /\ InBothLocations(last.args))
       => last.call.file.dir = "cartera_raw"
    /\ (last.op = "compare" /\ last.found)
       => /\ InBothLocations(last.p1) => last.call1.file.dir = "cartera_raw"
          /\ InBothLocations(last.p2) => last.call2.file.dir = "cartera_raw"

(***************************************************************************)
(* The normalizers: claims C11-C15, on the state a call of                 *)
(* process_cartera_data or process_recaudo_data leaves.                    *)
(***************************************************************************)
\* The cell holds no number: it is empty, or text that to_numeric rejects
\* once separators, currency signs and blanks are removed.
Unparsable(c) == ~IsNum(c) /\ IsNaN(CleanRecaudoCell(c))

MonetaryCellsOk(df, res, columns) ==
    \A i \in 1..Len(columns) :
        HasCol(res, columns[i]) =>
            /\ \A c \in ColCells(res, columns[i]) : IsNum(c)
            /\ Len(res.rows) = Len(df.rows)
               => \A r \in 1..Len(df.rows) :
                    Unparsable(df.rows[r][ColIdx(res, columns[i])])
                    => res.rows[r][ColIdx(res, columns[i])] = Num(0)

\* C11 as claimed: after either normalizer every cell of every monetary
\* column present holds a number, and a cell whose original value was empty
\* or did not parse holds 0.
C11_Claim ==
    /\ last.op = "process_cartera"
       => MonetaryCellsOk(last.df, last.res, NumericColumns)
    /\ last.op = "process_recaudo"
       => MonetaryCellsOk(last.df, last.res, RecaudoNumericColumns)

\* The composite key of a row as the three components the claims name.
KeyTriple(t, row) ==
    <<row[ColIdx(t, "Vencimiento")],
      Upper(Strip(CellStr(row[ColIdx(t, FirstPresent(t, PossibleRazonNames))]))),
      Upper(Strip(CellStr(row[ColIdx(t, FirstPresent(t, PossiblePlacaNames))])))>>

\* The key deduplication groups by: the joined key when the three columns
\* are there, the due date alone otherwise.
GroupKey(t, row) ==
    IF MissingCols(t) = {}
    THEN UniqueKey(t, row, FirstPresent(t, PossibleRazonNames),
                   FirstPresent(t, PossiblePlacaNames))
    ELSE CellStr(row[ColIdx(t, "Vencimiento")])

FullDedupCall ==
    /\ last.op = "process_cartera"
    /\ last.deduplicate
    /\ MissingCols(BeforeDedup(last.df)) = {}

\* C12 as claimed: with the three key columns present, the deduplicated
\* table has at most one row per (due date, normalized company, normalized
\* plate) and every such key of the input is still in it.
C12_Claim ==
    FullDedupCall =>
        /\ \A i, j \in 1..Len(last.res.rows) :
             KeyTriple(last.res, last.res.rows[i]) = KeyTriple(last.res, last.res.rows[j])
             => i = j
        /\ \A i \in 1..Len(BeforeDedup(last.df).rows) :
             \E j \in 1..Len(last.res.rows) :
                KeyTriple(last.res, last.res.rows[j]) =
                   KeyTriple(BeforeDedup(last.df), BeforeDedup(last.df).rows[i])

\* C13 as claimed: of every group of colliding records, in the full and in
\* the due-date-only deduplication, the row kept is one with the most recent
\* value of the updated-at column when there is such a column, and the first
\* of the group in source order when there is none.
C13_Claim ==
    ( /\ last.op = "process_cartera"
      /\ last.deduplicate
      /\ HasCol(BeforeDedup(last.df), "Vencimiento") )
    => \A o \in 1..Len(last.res.rows) :
         \A i \in 1..Len(BeforeDedup(last.df).rows) :
            GroupKey(BeforeDedup(last.df), BeforeDedup(last.df).rows[i])
               = GroupKey(last.res, last.res.rows[o])
            => IF SelectSeq(last.res.cols, IsUpdateCol) # <<>>
               THEN SortRank(last.res.rows[o][ColIdx(last.res,
                                SelectSeq(last.res.cols, IsUpdateCol)[1])])
                    >= SortRank(BeforeDedup(last.df).rows[i][ColIdx(last.res,
                                SelectSeq(last.res.cols, IsUpdateCol)[1])])
               ELSE \E k \in 1..i :
                      /\ BeforeDedup(last.df).rows[k] = last.res.rows[o]
                      /\ \A m \in 1..(k - 1) :
                           GroupKey(BeforeDedup(last.df), BeforeDedup(last.df).rows[m])
                              # GroupKey(last.res, last.res.rows[o])

\* C14 as claimed: two records that differ in a component of the composite
\* key do not collide, and a table of two such records keeps both.
C14_Claim ==
    FullDedupCall =>
        \A i, j \in 1..Len(BeforeDedup(last.df).rows) :
            KeyTriple(BeforeDedup(last.df), BeforeDedup(last.df).rows[i])
               # KeyTriple(BeforeDedup(last.df), BeforeDedup(last.df).rows[j])
            => /\ GroupKey(BeforeDedup(last.df), BeforeDedup(last.df).rows[i])
                    # GroupKey(BeforeDedup(last.df), BeforeDedup(last.df).rows[j])
               /\ Len(last.df.rows) = 2 => last.res.rows = BeforeDedup(last.df).rows

DegradedCall ==
    /\ last.op = "process_cartera"
    /\ last.deduplicate
    /\ MissingCols(BeforeDedup(last.df)) # {}

\* C15: when a key column is absent, the warning names exactly the missing
\* columns; with a due-date column the result has one row per distinct due
\* date of the input, each a row of the input; without one the rows are
\* those of the input.
C15_Degraded ==
    DegradedCall =>
        /\ last.warnings # {}
        /\ "Vencimiento" \in last.warnings <=> ~HasCol(last.res, "Vencimiento")
        /\ "Razón Social" \in last.warnings
              <=> \A i \in 1..Len(PossibleRazonNames) :
                     ~HasCol(last.res, PossibleRazonNames[i])
        /\ "Placa" \in last.warnings
              <=> \A i \in 1..Len(PossiblePlacaNames) :
                     ~HasCol(last.res, PossiblePlacaNames[i])
        /\ IF HasCol(last.res, "Vencimiento")
           THEN /\ \A i, j \in 1..Len(last.res.rows) :
                     last.res.rows[i][ColIdx(last.res, "Vencimiento")]
                        = last.res.rows[j][ColIdx(last.res, "Vencimiento")] => i = j
                /\ \A i \in 1..Len(BeforeDedup(last.df).rows) :
                     \E j \in 1..Len(last.res.rows) :
                        last.res.rows[j][ColIdx(last.res, "Vencimiento")] =
                           BeforeDedup(last.df).rows[i][ColIdx(last.res, "Vencimiento")]
                /\ \A j \in 1..Len(last.res.rows) :
                     \E i \in 1..Len(BeforeDedup(last.df).rows) :
                        last.res.rows[j] = BeforeDedup(last.df).rows[i]
           ELSE last.res.rows = BeforeDedup(last.df).rows

\* No plate column, two rows of one due date: the warning names Placa and
\* one of the two rows is gone.
C15_Witness ==
    /\ DegradedCall
    /\ last.warnings = {"Placa"}
    /\ Len(last.df.rows) = 2
    /\ Len(last.res.rows) = 1

(***************************************************************************)
(* The classification: claims C16 and C17.                                 *)
(***************************************************************************)
CategoryLabels ==
    {"Soluciones Integrales", "Grupo Estrategico", "Finaliados", "AGM", "Motofacil",
     "Motored", "Cartera Castigada", "Otras", "Sin Clasificar"}

\* The business unit of account code n by the table of the specification.
UnitOf(n) ==
    CASE n \in (137010001..137010006) \cup {137010999} -> "Soluciones Integrales"
      [] n = 130505010 -> "Grupo Estrategico"
      [] n = 130505011 -> "Finaliados"
      [] n = 130505012 -> "AGM"
      [] n = 130505013 -> "Motofacil"
      [] n = 130505014 -> "Motored"
      [] n \in 139905000..139905005 -> "Cartera Castigada"
      [] OTHER -> "Otras"

\* C16: every input gets one of the nine labels, and a code given as an
\* int, a float, or text with dots, blanks and commas gets the label of its
\* unit: a listed code its unit, 139905000..139905005 "Cartera Castigada",
\* any other code "Otras".
C16_Total ==
    last.op = "classify" =>
        /\ last.label \in CategoryLabels
        /\ last.label = clasificar_empresa(last.cuenta)
        /\ \A n \in SampleCodes :
             last.cuenta \in SpellingsOf(n) \ {Txt(<<"0">> \o NatStr(n))}
             => last.label = UnitOf(n)

\* The code of the last written-off account, as dotted text.
C16_Witness ==
    /\ last.op = "classify"
    /\ last.cuenta = Txt(Dotted(NatStr(139905005)))
    /\ last.label = "Cartera Castigada"

\* Text that is no number once dots, blanks and commas are removed.
NotANumber(cuenta) == IsTxt(cuenta) /\ ~ParsesInt(CuentaStr(cuenta))

\* C17 as claimed: a null code and a code that does not parse as a number
\* (text, the empty string) give "Sin Clasificar"; "Otras" is only given to
\* well-formed codes.
C17_Claim ==
    last.op = "classify" =>
        /\ (IsNaN(last.cuenta) \/ NotANumber(last.cuenta))
           => last.label = "Sin Clasificar"
        /\ last.label = "Otras" => ~NotANumber(last.cuenta)

(***************************************************************************)
(* The aggregations: claims C18-C20.                                       *)
(***************************************************************************)
\* Five percentages over one denominator add up to 100, give or take 0.01.
SumsTo100(ix) ==
    LET n == ix[1].num + ix[2].num + ix[3].num + ix[4].num + ix[5].num
        d == ix[1].den
    IN  /\ \A i \in 1..5 : ix[i].den = d
        /\ (n - 100 * d) * 100 <= d
        /\ (100 * d - n) * 100 <= d

\* C18 as claimed: for every group with a positive total the five bucket
\* percentages add up to 100.
C18_Claim ==
    /\ (last.op = "metricas" /\ last.res.total > 0) => SumsTo100(last.res.indices)
    /\ (last.op = "fiable" /\ last.res.total_capital > 0) => SumsTo100(last.res.indices)

\* C19: with a denominator of zero, the empty record set included, every
\* bucket percentage and every index of obtener_metricas, of the Fiable
\* report and of compare_cartera_periods is 0.
C19_ZeroDivision ==
    /\ (last.op = "metricas" /\ last.res.total = 0)
       => \A i \in 1..5 : last.res.indices[i] = Zero
    /\ (last.op = "fiable" /\ last.res.total_capital = 0)
       => /\ \A i \in 1..5 : last.res.indices[i] = Zero
          /\ last.res.indice_mora = Zero
    /\ (last.op = "compare_periods" /\ last.res # NoneResult)
       => \A i \in 1..Len(last.res.rows) :
            /\ last.res.rows[i].total1 = 0
               => /\ last.res.rows[i].indice_corriente1 = Zero
                  /\ last.res.rows[i].indice_mora1 = Zero
            /\ last.res.rows[i].total2 = 0
               => /\ last.res.rows[i].indice_corriente2 = Zero
                  /\ last.res.rows[i].indice_mora2 = Zero

\* A group whose first period has amounts in a bucket under a total of zero.
C19_Witness ==
    /\ last.op = "compare_periods"
    /\ last.res # NoneResult
    /\ \E i \in 1..Len(last.res.rows) :
         /\ last.res.rows[i].total1 = 0
         /\ last.res.rows[i].por_vencer1 > 0
         /\ last.res.rows[i].indice_corriente1 = Zero
         /\ last.res.rows[i].total2 > 0

ComparisonRows == IF last.res = NoneResult THEN <<>> ELSE last.res.rows

\* One row per label of either period, and zeros for the period a label is
\* not in.
UnionOfGroups ==
    /\ {ComparisonRows[i].Empresa : i \in 1..Len(ComparisonRows)}
          = EmpresasOf(AddEmpresa(last.df1)) \cup EmpresasOf(AddEmpresa(last.df2))
    /\ \A i, j \in 1..Len(ComparisonRows) :
         ComparisonRows[i].Empresa = ComparisonRows[j].Empresa => i = j
    /\ \A i \in 1..Len(ComparisonRows) :
         /\ ComparisonRows[i].Empresa \notin EmpresasOf(AddEmpresa(last.df1))
            => /\ ComparisonRows[i].total1 = 0
               /\ ComparisonRows[i].por_vencer1 = 0
               /\ ComparisonRows[i].dias30_1 = 0
               /\ ComparisonRows[i].dias60_1 = 0
               /\ ComparisonRows[i].dias90_1 = 0
               /\ ComparisonRows[i].dias_mas90_1 = 0
               /\ ComparisonRows[i].indice_corriente1 = Zero
               /\ ComparisonRows[i].indice_mora1 = Zero
         /\ ComparisonRows[i].Empresa \notin EmpresasOf(AddEmpresa(last.df2))
            => /\ ComparisonRows[i].total2 = 0
               /\ ComparisonRows[i].por_vencer2 = 0
               /\ ComparisonRows[i].dias30_2 = 0
               /\ ComparisonRows[i].dias60_2 = 0
               /\ ComparisonRows[i].dias90_2 = 0
               /\ ComparisonRows[i].dias_mas90_2 = 0
               /\ ComparisonRows[i].indice_corriente2 = Zero
               /\ ComparisonRows[i].indice_mora2 = Zero

\* C20 as claimed: for any two period tables the comparison has exactly one
\* row per group label of either period, with zeros for a period the label
\* is missing from.
C20_Claim == last.op = "compare_periods" => UnionOfGroups

(***************************************************************************)
(* The comparator's deltas: claims C21-C23.                                *)
(***************************************************************************)
\* The fraction f is the number n / d.
FracIs(f, n, d) == f.num * d = n * f.den

\* C21 as claimed: in every row the absolute delta is total2 - total1 and the
\* percentage delta is delta / total1 * 100; with total1 = 0 it is 0 when
\* total2 = 0 and 100 when total2 is not 0, whatever its sign.
C21_Claim ==
    last.op = "compare_periods" =>
        \A i \in 1..Len(ComparisonRows) :
            LET r == ComparisonRows[i]
            IN  /\ r.var_total = r.total2 - r.total1
                /\ r.total1 # 0 => FracIs(r.var_porcentaje, r.var_total * 100, r.total1)
                /\ (r.total1 = 0 /\ r.total2 = 0) => FracIs(r.var_porcentaje, 0, 1)
                /\ (r.total1 = 0 /\ r.total2 # 0) => FracIs(r.var_porcentaje, 100, 1)

Sign(n) == IF n > 0 THEN 1 ELSE IF n < 0 THEN 0 - 1 ELSE 0

\* The comparison of the same two frames the other way round.
ReverseRows ==
    IF compare_cartera_periods(last.df2, last.df1) = NoneResult THEN <<>>
    ELSE compare_cartera_periods(last.df2, last.df1).rows

InBothPeriods(empresa) ==
    /\ empresa \in EmpresasOf(AddEmpresa(last.df1))
    /\ empresa \in EmpresasOf(AddEmpresa(last.df2))

\* C22: for a group present in both periods, the signs of the absolute and
\* of the percentage delta of compare(A, B) are the negations of the signs
\* of the same deltas of compare(B, A), and the group has a row in both.
C22_Symmetry ==
    last.op = "compare_periods" =>
        /\ Len(ReverseRows) = Len(ComparisonRows)
        /\ \A i \in 1..Len(ComparisonRows) :
             InBothPeriods(ComparisonRows[i].Empresa) =>
                /\ ReverseRows[i].Empresa = ComparisonRows[i].Empresa
                /\ Sign(ReverseRows[i].var_total) = 0 - Sign(ComparisonRows[i].var_total)
                /\ ReverseRows[i].var_porcentaje.den > 0
                /\ ComparisonRows[i].var_porcentaje.den > 0
                /\ Sign(ReverseRows[i].var_porcentaje.num)
                      = 0 - Sign(ComparisonRows[i].var_porcentaje.num)

\* A shared group that is new in the second period: +100 one way, a
\* decrease the other way.
C22_Witness ==
    /\ last.op = "compare_periods"
    /\ \E i \in 1..Len(ComparisonRows) :
         /\ InBothPeriods(ComparisonRows[i].Empresa)
         /\ ComparisonRows[i].total1 = 0
         /\ ComparisonRows[i].total2 > 0
         /\ ComparisonRows[i].var_porcentaje = [num |-> 100, den |-> 1]
         /\ ReverseRows[i].var_porcentaje.num < 0

TrackedMetrics == {"total", "por_vencer", "dias30", "dias60", "dias90", "dias_mas90"}

Carries(row, metric, kind) ==
    \E f \in DOMAIN row : f \in DOMAIN ColumnRole /\ ColumnRole[f] = <<metric, kind>>

\* C23 as claimed: every row of the comparison carries, for the total and for
\* each of the five aging buckets, the values of both periods, the absolute
\* delta and the percentage delta.
C23_Claim ==
    last.op = "compare_periods" =>
        \A i \in 1..Len(ComparisonRows) :
            \A metric \in TrackedMetrics :
                \A kind \in {"value1", "value2", "delta", "pct"} :
                    Carries(ComparisonRows[i], metric, kind)

\* What the rows do carry: both values of every tracked metric, and the two
\* deltas of the total only.
RowsCarryValues ==
    last.op = "compare_periods" =>
        \A i \in 1..Len(ComparisonRows) :
            /\ \A metric \in TrackedMetrics :
                 /\ Carries(ComparisonRows[i], metric, "value1")
                 /\ Carries(ComparisonRows[i], metric, "value2")
            /\ Carries(ComparisonRows[i], "total", "delta")
            /\ Carries(ComparisonRows[i], "total", "pct")

(***************************************************************************)
(* The clear-cache button: claim C24.                                      *)
(***************************************************************************)
\* The cache directories that belong to a page.
OwnCacheDirs(page_obj) ==
    CASE page_obj = "1_Recaudo" -> {"recaudo"}
      [] page_obj = "2_Cartera" -> {"cartera"}
      [] OTHER -> {}

\* The call of load_excel_with_cache the last operation made, if it made
\* one: a memoized page call makes none.
RanLoad ==
    \/ last.op = "load"
    \/ last.op \in {"page", "recaudo_page"} /\ last.found

InvalidRows(df, k, asDate) ==
    {r \in 1..Len(df.rows) :
        /\ IsTxt(df.rows[r][k])
        /\ IF asDate THEN IsNaT(ToDatetimeCell(df.rows[r][k]))
           ELSE IsNaN(CleanRecaudoCell(df.rows[r][k]))}

\* A warning for the column with a count that covers its invalid entries.
Warned(df, col, asDate) ==
    LET k == ColIdx(StripColumns(df), col)
    IN  (HasCol(StripColumns(df), col) /\ InvalidRows(df, k, asDate) # {})
        => \E w \in last.quality :
              /\ w.col = col
              /\ w.count >= Cardinality(InvalidRows(df, k, asDate))

\* C25 as claimed: a frame with an unparsable value in a designated date
\* column (FECHA_VENCIMIENTO, FECHA_RECAUDO; Vencimiento) or in a designated
\* monetary column comes with a warning that carries the count of the
\* invalid entries of that column.
C25_Claim ==
    /\ last.op = "process_recaudo" =>
         /\ \A i \in 1..Len(RecaudoDateColumns) :
              Warned(last.df, RecaudoDateColumns[i], TRUE)
         /\ \A i \in 1..Len(RecaudoNumericColumns) :
              Warned(last.df, RecaudoNumericColumns[i], FALSE)
    /\ last.op = "process_cartera" =>
         /\ Warned(last.df, "Vencimiento", TRUE)
         /\ \A i \in 1..Len(NumericColumns) : Warned(last.df, NumericColumns[i], FALSE)

\* The part of C25 the Recaudo page keeps: its invalid dates are counted.
RecaudoDatesWarned ==
    last.op = "process_recaudo" =>
        \A i \in 1..Len(RecaudoDateColumns) : Warned(last.df, RecaudoDateColumns[i], TRUE)

(***************************************************************************)
(* The zero-base convention: claim C26.                                    *)
(***************************************************************************)
\* C26 as claimed: at a base of 0 the cartera comparison, the colocación
\* deltas and the pipeline YTD delta give the same percentage for the same
\* pair: 0 when the comparison is 0, 100 when it is not.
C26_Claim ==
    (last.op = "deltas" /\ last.base = 0) =>
        /\ last.colocacion = last.cartera
        /\ last.pipeline = last.cartera
        /\ last.comparison = 0 => FracIs(last.cartera, 0, 1)
        /\ last.comparison # 0 => FracIs(last.cartera, 100, 1)

(***************************************************************************)
(* Concurrent loads: claim C27.                                            *)
(***************************************************************************)
\* C27: nothing keeps a request away from the Parquet file another request
\* is writing: the step that enters to_parquet leaves the file on disk,
\* incomplete, and passing the freshness check of any request; no lock is
\* taken and no temporary file is used.
C27_Unguarded ==
    [][\A r \in DOMAIN req :
          (req[r].pc = "write" /\ req'[r].pc = "writing") =>
              /\ get_cache_path(F1, "cartera") \in DOMAIN cache'
              /\ ~cache'[get_cache_path(F1, "cartera")].ok
              /\ is_cache_valid(fs', cache', F1, get_cache_path(F1, "cartera"))]_vars

\* One request has passed the freshness check and read the Parquet file
\* while the other is still writing it.
C27_Witness ==
    \E r, o \in DOMAIN req :
        /\ r # o
        /\ req[r].racy
        /\ req[o].pc = "writing"
        /\ ~cache[get_cache_path(F1, "cartera")].ok

(***************************************************************************)
(* Page-level freshness: claim C28.                                        *)
(***************************************************************************)
\* The workbook was modified after its Parquet file was written, and the
\* page loader has been called since.
ModifiedSince(f, cache_dir) ==
    /\ get_cache_path(f, cache_dir) \in DOMAIN cache
    /\ fs[f].mtime > cache[get_cache_path(f, cache_dir)].mtime

PageLoadFresh ==
    (last.op \in {"page", "recaudo_page"} /\ ~last.memoHit /\ last.call.parsed)
    => last.res = Tbl(ApplyFunc(last.call.func, fs[last.call.file].table))

(***************************************************************************)
(* One cache file per source: claim C29.                                   *)
(***************************************************************************)
\* The table is what the workbook f holds, processed by the loaders'
\* functions (by one, or by one on top of the other through the cache).
DerivedFrom(res, f) ==
    \E g1, g2 \in ProcessingFuncs :
        res = Tbl(ApplyFunc(g2, ApplyFunc(g1, fs[f].table)))

\* No two entries of the catalog have the same Parquet file.
OwnCacheFiles ==
    last.op = "detect" =>
        \A i, j \in 1..Len(last.catalog) :
            last.catalog[i].path # last.catalog[j].path
            => get_cache_path(last.catalog[i].path, last.dataset)
                  # get_cache_path(last.catalog[j].path, last.dataset)

\* No load returns a table that was cached from another workbook.
NoForeignTable ==
    /\ (last.op = "page" /\ last.found /\ IsTbl(last.call.res))
       => DerivedFrom(last.call.res, last.call.file)
    /\ (last.op = "compare" /\ last.found)
       => /\ IsTbl(last.call1.res) => DerivedFrom(last.call1.res, last.call1.file)
          /\ IsTbl(last.call2.res) => DerivedFrom(last.call2.res, last.call2.file)

\* C29 as claimed: two distinct files of a catalog never have the same
\* Parquet file, and a load of a workbook never returns a table that was
\* cached from another workbook.
C29_Claim == OwnCacheFiles /\ NoForeignTable

(***************************************************************************)
(* The retry policy of call_gemini: claim C30.                             *)
(***************************************************************************)
\* C30: whatever the model answers, call_gemini calls it at most
\* max_retries + 1 times; every call but the last met a rate-limit error
\* with attempts left; the last call ends the function: with the text when
\* it succeeded, with RuntimeError when it failed otherwise or met a rate
\* limit at the last attempt.
C30_RetryTerminates ==
    last.op = "call_gemini" =>
        LET n == last.res.calls
            mr == last.max_retries
        IN  /\ n >= 0
            /\ n <= (IF mr >= 0 THEN mr + 1 ELSE 0)
            /\ last.res.result \in {"text", "RuntimeError"}
            /\ \A k \in 1..(n - 1) :
                 last.outcomes[k] = "rate_limit" /\ k - 1 < mr
            /\ Len(last.res.slept) = (IF n > 0 THEN n - 1 ELSE 0)
            /\ n = 0 => last.res.result = "RuntimeError"
            /\ n > 0 =>
                 /\ last.outcomes[n] \in {"text", "parts"} => last.res.result = "text"
                 /\ last.outcomes[n] \in {"blank", "error"}
                       => last.res.result = "RuntimeError"
                 /\ last.outcomes[n] = "rate_limit"
                       => (n = mr + 1 /\ last.res.result = "RuntimeError")

\* Two rate limits, then an answer at the last attempt.
C30_Witness ==
    /\ last.op = "call_gemini"
    /\ last.max_retries = 2
    /\ last.res.calls = 3
    /\ last.outcomes[1] = "rate_limit"
    /\ last.outcomes[2] = "rate_limit"
    /\ last.res.result = "text"
    /\ last.res.slept = <<1, 2>>

====
